---- MODULE Spec2Model ----
(***************************************************************************)
(* A TLA+ model of the folkevalget browsing site's analytics core: the     *)
(* missing-value-aware comparators, the vote signal classifier, the party  *)
(* rollup builder, the per-view filter/sort/URL controllers, the boot of a *)
(* page with the fetchJson calls it awaits, and the catalogue loader.      *)
(*                                                                         *)
(* Conventions.                                                            *)
(*  - A JavaScript text that the code processes character by character     *)
(*    (names, search queries, the "id" URL parameter) is a sequence of     *)
(*    one-character strings; sort-mode tokens are plain strings.           *)
(*  - A value that may be null/undefined is <<>> (missing) or <<v>>.       *)
(*  - Percentages are integers; one-decimal averages are held in tenths.   *)
(***************************************************************************)
EXTENDS Integers, Sequences, FiniteSets, TLC

VARIABLES
  \* comparator library (SortSpec)
  cmpPc, cmpKind, cmpMode, cmpList, cmpOut, cmpLR, cmpRL,
  \* vote signal classifier (ClassifySpec)
  clsPc, clsVote, clsOut,
  \* party rollup builder (RollupSpec)
  rollPc, rollProfiles, rollEntries, rollRows,
  \* view controllers (ViewSpec): which controller the page runs, how far its
  \* boot has come, the parameters of window.location.search, whether
  \* history.replaceState has written them, and the controller's state object
  view, phase, search, replaced, state,
  \* page boot (BootSpec): which page boots, how far boot() has come, the
  \* fetchJson call of every feed, what boot stored, how often bindEvents
  \* ran, the input events dispatched and the handler runs they caused
  bootView, bootPc, feeds, loaded, bound, events, handled,
  \* catalogue loader (MemoSpec): the cached promise, the loads started so
  \* far and the load each call of loadCatalogueData returned
  catalogueDataPromise, loads, calls

cmpVars == <<cmpPc, cmpKind, cmpMode, cmpList, cmpOut, cmpLR, cmpRL>>

clsVars == <<clsPc, clsVote, clsOut>>

rollVars == <<rollPc, rollProfiles, rollEntries, rollRows>>

viewVars == <<view, phase, search, replaced, state>>

bootVars == <<bootView, bootPc, feeds, loaded, bound, events, handled>>

memoVars == <<catalogueDataPromise, loads, calls>>

vars == <<cmpVars, clsVars, rollVars, viewVars, bootVars, memoVars>>

\* A component that takes no part in a specification stays idle.
CmpIdle ==
  /\ cmpPc = "idle" /\ cmpKind = "lib" /\ cmpMode = "name"
  /\ cmpList = <<>> /\ cmpOut = <<>> /\ cmpLR = 0 /\ cmpRL = 0

ClsIdle == clsPc = "idle" /\ clsVote = <<>> /\ clsOut = <<>>

RollIdle ==
  rollPc = "idle" /\ rollProfiles = <<>> /\ rollEntries = <<>> /\ rollRows = <<>>

ViewIdle ==
  /\ view = "none" /\ phase = "idle" /\ search = <<>> /\ replaced = FALSE
  /\ state = <<>>

BootIdle ==
  /\ bootView = "none" /\ bootPc = "idle" /\ feeds = <<>> /\ loaded = <<>>
  /\ bound = 0 /\ events = 0 /\ handled = 0

MemoIdle == catalogueDataPromise = <<>> /\ loads = <<>> /\ calls = <<>>

\* ------------------------------------------------------------------ values

None == <<>>

Some(v) == <<v>>

IsMissing(x) == x = None

SignOf(n) == IF n < 0 THEN -1 ELSE IF n > 0 THEN 1 ELSE 0

RECURSIVE SeqsUpTo(_, _)
SeqsUpTo(S, n) ==
  IF n = 0 THEN {<<>>}
  ELSE LET shorter == SeqsUpTo(S, n - 1)
       IN shorter \cup {Append(s, x) : s \in {t \in shorter : Len(t) = n - 1}, x \in S}

\* ------------------------------------------------------------------ text

\* The characters localeCompare(…, "da") orders, in Danish collation order at
\* primary strength: punctuation, digits, a..z, then ae, oe and aa-letters.
CollationOrder ==
  <<" ", "-", "(", ")", ".", "!", "0", "1", "2", "3", "4", "5", "6",
    "7", "8", "9", "a", "b", "c", "d", "e", "f", "g", "h", "i", "j",
    "k", "l", "m", "n", "o", "p", "q", "r", "s", "t", "u", "v", "w",
    "x", "y", "z", "æ", "ø", "å">>

LowerLetters ==
  <<"a", "b", "c", "d", "e", "f", "g", "h", "i", "j", "k", "l", "m",
    "n", "o", "p", "q", "r", "s", "t", "u", "v", "w", "x", "y", "z",
    "æ", "ø", "å">>

UpperLetters ==
  <<"A", "B", "C", "D", "E", "F", "G", "H", "I", "J", "K", "L", "M",
    "N", "O", "P", "Q", "R", "S", "T", "U", "V", "W", "X", "Y", "Z",
    "Æ", "Ø", "Å">>

Digits == {"0", "1", "2", "3", "4", "5", "6", "7", "8", "9"}

IndexIn(seq, c) == CHOOSE i \in 1..Len(seq) : seq[i] = c

IsUpper(c) == \E i \in 1..Len(UpperLetters) : UpperLetters[i] = c

\* String.prototype.toLowerCase on one character.
LowerChar(c) == IF IsUpper(c) THEN LowerLetters[IndexIn(UpperLetters, c)] ELSE c

\* The base letter of an accented letter (NFD followed by dropping the
\* combining marks U+0300..U+036F).
StripAccent(c) == IF c = "é" THEN "e" ELSE c

PrimaryRank(c) == IndexIn(CollationOrder, StripAccent(LowerChar(c)))

RECURSIVE LexCompare(_, _)
LexCompare(a, b) ==
  IF a = <<>> /\ b = <<>> THEN 0
  ELSE IF a = <<>> THEN -1
  ELSE IF b = <<>> THEN 1
  ELSE IF Head(a) < Head(b) THEN -1
  ELSE IF Head(a) > Head(b) THEN 1
  ELSE LexCompare(Tail(a), Tail(b))

\* String.prototype.localeCompare(other, "da"): primary letters first, then
\* accents, then case (lower case first); 0 only for equal texts.
LocaleCompare(a, b) ==
  LET prim(s) == [i \in 1..Len(s) |-> PrimaryRank(s[i])]
      acc(s)  == [i \in 1..Len(s) |-> IF StripAccent(LowerChar(s[i])) = LowerChar(s[i]) THEN 0 ELSE 1]
      cas(s)  == [i \in 1..Len(s) |-> IF IsUpper(s[i]) THEN 1 ELSE 0]
      p == LexCompare(prim(a), prim(b))
      q == LexCompare(acc(a), acc(b))
  IN IF p # 0 THEN p ELSE IF q # 0 THEN q ELSE LexCompare(cas(a), cas(b))

Range(seq) == {seq[i] : i \in 1..Len(seq)}

RECURSIVE Concat(_)
\* The texts of a list, one after the other.
Concat(list) == IF list = <<>> THEN <<>> ELSE Head(list) \o Concat(Tail(list))

RECURSIVE JoinSpace(_)
\* Array.prototype.join(" ")
JoinSpace(list) ==
  IF list = <<>> THEN <<>>
  ELSE IF Len(list) = 1 THEN list[1]
  ELSE list[1] \o <<" ">> \o JoinSpace(Tail(list))

\* Array.prototype.filter(Boolean) on a list of texts: empty texts go.
FilterTruthy(list) == SelectSeq(list, LAMBDA t : t # <<>>)

\* String.prototype.includes
Includes(hay, needle) ==
  \E i \in 0..(Len(hay) - Len(needle)) : SubSeq(hay, i + 1, i + Len(needle)) = needle

\* String.prototype.toLowerCase
ToLowerCase(s) == [i \in 1..Len(s) |-> LowerChar(s[i])]

IsSpace(c) == c = " "

RECURSIVE TrimStart(_)
TrimStart(s) ==
  IF s = <<>> THEN <<>> ELSE IF IsSpace(Head(s)) THEN TrimStart(Tail(s)) ELSE s

RECURSIVE TrimEnd(_)
TrimEnd(s) ==
  IF s = <<>> THEN <<>>
  ELSE IF IsSpace(s[Len(s)]) THEN TrimEnd(SubSeq(s, 1, Len(s) - 1)) ELSE s

\* String.prototype.trim
Trim(s) == TrimEnd(TrimStart(s))

\* replaceAll of the Danish and Faroese letters by their two-letter spellings.
ExpandLetter(c) ==
  CASE c = "æ" -> <<"a", "e">>
    [] c = "ø" -> <<"o", "e">>
    [] c = "å" -> <<"a", "a">>
    [] c = "ð" -> <<"d">>
    [] c = "þ" -> <<"t", "h">>
    [] OTHER -> <<c>>

\* \p{L}, \p{N}, \s and "-" are kept by /[^\p{L}\p{N}\s-]/gu.
IsKeptChar(c) ==
  \/ c \in Range(LowerLetters) \/ c \in Range(UpperLetters) \/ c \in Digits
  \/ c \in {"é", "ð", "þ"} \/ IsSpace(c) \/ c = "-"

RECURSIVE CollapseSpaces(_)
\* replace(/\s+/g, " ")
CollapseSpaces(s) ==
  IF Len(s) < 2 THEN s
  ELSE IF IsSpace(s[1]) /\ IsSpace(s[2]) THEN CollapseSpaces(Tail(s))
  ELSE <<s[1]>> \o CollapseSpaces(Tail(s))

\* window.Folkevalget.normaliseText
NormaliseText(value) ==
  LET lower == ToLowerCase(value)
      expanded == Concat([i \in 1..Len(lower) |-> ExpandLetter(lower[i])])
      stripped == [i \in 1..Len(expanded) |-> StripAccent(expanded[i])]
      spaced == [i \in 1..Len(stripped) |->
                   IF IsKeptChar(stripped[i]) THEN stripped[i] ELSE " "]
  IN Trim(CollapseSpaces(spaced))

\* --------------------------------------------------- vote signal classifier

CLOSE_VOTE_THRESHOLD_PCT == 10

\* Number.POSITIVE_INFINITY; a finite share is the fraction <<num, den>>.
Infinity == <<1, 0>>

Abs(n) == IF n < 0 THEN -n ELSE n

\* Number(vote.counts?.[key] || 0)
CountOf(vote, key) == IF vote.counts = None THEN 0 ELSE vote.counts[1][key]

VoteDecisionTotal(vote) == CountOf(vote, "for") + CountOf(vote, "imod")

\* A margin share that reads "no decision data" as a margin of 0.
VoteMarginSharePctZero(vote) ==
  LET total == VoteDecisionTotal(vote)
  IN IF total = 0 THEN <<0, 1>>
     ELSE <<Abs(CountOf(vote, "for") - CountOf(vote, "imod")) * 100, total>>

VoteMarginSharePct(vote) ==
  LET total == VoteDecisionTotal(vote)
  IN IF total = 0 THEN Infinity
     ELSE <<Abs(CountOf(vote, "for") - CountOf(vote, "imod")) * 100, total>>

\* share <= n for a share that is Infinity or a fraction.
ShareAtMost(share, n) == share[2] # 0 /\ share[1] <= n * share[2]

ShareBelow(share, n) == share[2] # 0 /\ share[1] < n * share[2]

IsCloseVoteStrict(vote) ==
  VoteDecisionTotal(vote) > 0
    /\ ShareBelow(VoteMarginSharePct(vote), CLOSE_VOTE_THRESHOLD_PCT)

IsCloseVote(vote) ==
  VoteDecisionTotal(vote) > 0
    /\ ShareAtMost(VoteMarginSharePct(vote), CLOSE_VOTE_THRESHOLD_PCT)

\* Number(list?.length || 0)
LengthOrZero(list) == IF list = None THEN 0 ELSE Len(list[1])

\* Object.entries(vote.vote_groups_by_party || {}) filtered to the parties
\* with members both among "for" and among "imod".
SplitEntries(vote) ==
  SelectSeq(IF vote.vote_groups_by_party = None THEN <<>> ELSE vote.vote_groups_by_party[1],
            LAMBDA entry : LengthOrZero(entry["for"]) > 0 /\ LengthOrZero(entry["imod"]) > 0)

\* A split flag derived from the per-party groups.
HasPartySplitDerived(vote) == SplitEntries(vote) # <<>>

\* Number(vote.party_split_count || 0) > 0
HasPartySplit(vote) == vote.party_split_count > 0

\* -------------------------------------------------------- comparator library

CompareByName(left, right) == LocaleCompare(left.name, right.name)

CompareMetricNullFirst(leftValue, rightValue, leftProfile, rightProfile, direction) ==
  LET leftMissing == IsMissing(leftValue)
      rightMissing == IsMissing(rightValue)
  IN IF leftMissing /\ rightMissing THEN CompareByName(leftProfile, rightProfile)
     ELSE IF leftMissing THEN IF direction = "desc" THEN 1 ELSE -1
     ELSE IF rightMissing THEN IF direction = "desc" THEN -1 ELSE 1
     ELSE LET delta == IF direction = "desc"
                       THEN rightValue[1] - leftValue[1]
                       ELSE leftValue[1] - rightValue[1]
          IN IF delta # 0 THEN delta ELSE CompareByName(leftProfile, rightProfile)

CompareMetric(leftValue, rightValue, leftProfile, rightProfile, direction) ==
  LET leftMissing == IsMissing(leftValue)
      rightMissing == IsMissing(rightValue)
  IN IF leftMissing /\ rightMissing THEN CompareByName(leftProfile, rightProfile)
     ELSE IF leftMissing THEN 1
     ELSE IF rightMissing THEN -1
     ELSE LET delta == IF direction = "desc"
                       THEN rightValue[1] - leftValue[1]
                       ELSE leftValue[1] - rightValue[1]
          IN IF delta # 0 THEN delta ELSE CompareByName(leftProfile, rightProfile)

\* window.Folkevalget.compareProfiles of the current shared library.
CompareProfiles(left, right, sortMode) ==
  IF sortMode = "attendance_desc"
    THEN CompareMetric(left.attendance_pct, right.attendance_pct, left, right, "desc")
  ELSE IF sortMode = "attendance_asc"
    THEN CompareMetric(left.attendance_pct, right.attendance_pct, left, right, "asc")
  ELSE CompareByName(left, right)

\* window.Folkevalget.compareProfiles of the shared library that also sorts
\* by party loyalty.
CompareProfilesLoyalty(left, right, sortMode) ==
  IF sortMode = "attendance_desc"
    THEN CompareMetric(left.attendance_pct, right.attendance_pct, left, right, "desc")
  ELSE IF sortMode = "attendance_asc"
    THEN CompareMetric(left.attendance_pct, right.attendance_pct, left, right, "asc")
  ELSE IF sortMode = "loyalty_desc"
    THEN CompareMetric(left.party_loyalty_pct, right.party_loyalty_pct, left, right, "desc")
  ELSE IF sortMode = "loyalty_asc"
    THEN CompareMetric(left.party_loyalty_pct, right.party_loyalty_pct, left, right, "asc")
  ELSE CompareByName(left, right)

\* app.js: the profile grid's own comparators.
AppCompareLoyalty(left, right, direction) ==
  LET leftValue == left.party_loyalty_pct
      rightValue == right.party_loyalty_pct
      leftMissing == IsMissing(leftValue)
      rightMissing == IsMissing(rightValue)
  IN IF leftMissing /\ rightMissing THEN CompareByName(left, right)
     ELSE IF leftMissing THEN 1
     ELSE IF rightMissing THEN -1
     ELSE LET delta == IF direction = "desc"
                       THEN rightValue[1] - leftValue[1]
                       ELSE leftValue[1] - rightValue[1]
          IN IF delta # 0 THEN delta ELSE CompareByName(left, right)

AppCompareAttendance(left, right, direction) ==
  LET leftValue == left.attendance_pct
      rightValue == right.attendance_pct
      leftMissing == IsMissing(leftValue)
      rightMissing == IsMissing(rightValue)
  IN IF leftMissing /\ rightMissing THEN CompareByName(left, right)
     ELSE IF leftMissing THEN 1
     ELSE IF rightMissing THEN -1
     ELSE LET delta == IF direction = "desc"
                       THEN rightValue[1] - leftValue[1]
                       ELSE leftValue[1] - rightValue[1]
          IN IF delta # 0 THEN delta ELSE CompareByName(left, right)

AppCompareProfiles(left, right, sortMode) ==
  IF sortMode = "attendance_desc" THEN AppCompareAttendance(left, right, "desc")
  ELSE IF sortMode = "attendance_asc" THEN AppCompareAttendance(left, right, "asc")
  ELSE IF sortMode = "loyalty_desc" THEN AppCompareLoyalty(left, right, "desc")
  ELSE IF sortMode = "loyalty_asc" THEN AppCompareLoyalty(left, right, "asc")
  ELSE CompareByName(left, right)

CompareMetricRowsNoTieBreak(left, right, key, direction) ==
  LET leftValue == left[key]
      rightValue == right[key]
      leftMissing == IsMissing(leftValue)
      rightMissing == IsMissing(rightValue)
  IN IF leftMissing /\ rightMissing THEN LocaleCompare(left.displayName, right.displayName)
     ELSE IF leftMissing THEN 1
     ELSE IF rightMissing THEN -1
     ELSE IF direction = "desc"
          THEN rightValue[1] - leftValue[1]
          ELSE leftValue[1] - rightValue[1]

\* PartiesApp.compareMetricRows; key is "attendanceAvg".
CompareMetricRows(left, right, key, direction) ==
  LET leftValue == left[key]
      rightValue == right[key]
      leftMissing == IsMissing(leftValue)
      rightMissing == IsMissing(rightValue)
  IN IF leftMissing /\ rightMissing THEN LocaleCompare(left.displayName, right.displayName)
     ELSE IF leftMissing THEN 1
     ELSE IF rightMissing THEN -1
     ELSE LET delta == IF direction = "desc"
                       THEN rightValue[1] - leftValue[1]
                       ELSE leftValue[1] - rightValue[1]
          IN IF delta # 0 THEN delta
             ELSE LocaleCompare(left.displayName, right.displayName)

\* PartiesApp.compareRows (the party table of the current parties page).
CompareRows(left, right, sortMode) ==
  IF sortMode = "attendance_desc" THEN CompareMetricRows(left, right, "attendanceAvg", "desc")
  ELSE IF sortMode = "attendance_asc" THEN CompareMetricRows(left, right, "attendanceAvg", "asc")
  ELSE IF sortMode = "members_desc"
    THEN IF right.memberCount - left.memberCount # 0
         THEN right.memberCount - left.memberCount
         ELSE LocaleCompare(left.displayName, right.displayName)
  ELSE LocaleCompare(left.displayName, right.displayName)

\* The comparator a list is sorted with, by the code that sorts it.
\* VotesApp.compareVotesByDate: newest first, then the higher id first.
CompareVotesByDate(left, right) ==
  LET dateDelta == LocaleCompare(right.date, left.date)
  IN IF dateDelta # 0 THEN dateDelta ELSE right.afstemning_id - left.afstemning_id

CompareOutcomePriority(left, right, outcomeFirst) ==
  (IF right.vedtaget = outcomeFirst THEN 1 ELSE 0)
    - (IF left.vedtaget = outcomeFirst THEN 1 ELSE 0)

\* voteMarginSharePct(left) - voteMarginSharePct(right), by its sign; missing
\* stands for NaN, the difference of two infinite shares.
ShareDelta(left, right) ==
  LET l == VoteMarginSharePct(left)
      r == VoteMarginSharePct(right)
  IN IF l = Infinity /\ r = Infinity THEN None
     ELSE IF l = Infinity THEN Some(1)
     ELSE IF r = Infinity THEN Some(-1)
     ELSE Some(SignOf(l[1] * r[2] - r[1] * l[2]))

\* VotesApp.compareVotes; missing stands for a NaN result.
CompareVotes(left, right, mode) ==
  LET byDate == Some(CompareVotesByDate(left, right))
      outcomeDelta == CompareOutcomePriority(left, right, mode = "passed_first")
      delta == ShareDelta(left, right)
      splitDelta == right.party_split_count - left.party_split_count
  IN CASE mode \in {"passed_first", "failed_first"} ->
            IF outcomeDelta # 0 THEN Some(outcomeDelta) ELSE byDate
       [] mode = "close_first" -> IF delta # Some(0) THEN delta ELSE byDate
       [] mode = "split_first" ->
            IF splitDelta # 0 THEN Some(splitDelta)
            ELSE IF delta # Some(0) THEN delta ELSE byDate
       [] OTHER -> byDate

\* The comparator each sort call passes, as the sort reads its result (a NaN
\* counts as 0).
CompareBy(kind, mode, left, right) ==
  CASE kind = "lib" -> CompareProfiles(left, right, mode)
    [] kind = "libLoyalty" -> CompareProfilesLoyalty(left, right, mode)
    [] kind = "app" -> AppCompareProfiles(left, right, mode)
    [] kind = "rows" -> CompareRows(left, right, mode)
    [] kind = "votes" ->
         LET result == CompareVotes(left, right, mode)
         IN IF result = None THEN 0 ELSE result[1]
    [] kind = "labels" -> LocaleCompare(left, right)

\* Array.prototype.sort(comparator): a stable sort; an element moves in front
\* of another only when the comparator returns a negative number for it.
RECURSIVE InsertStable(_, _, _, _)
InsertStable(kind, mode, sorted, x) ==
  IF sorted = <<>> THEN <<x>>
  ELSE LET last == sorted[Len(sorted)]
       IN IF CompareBy(kind, mode, x, last) < 0
          THEN Append(InsertStable(kind, mode, SubSeq(sorted, 1, Len(sorted) - 1), x), last)
          ELSE Append(sorted, x)

RECURSIVE SortFrom(_, _, _, _)
SortFrom(kind, mode, sorted, rest) ==
  IF rest = <<>> THEN sorted
  ELSE SortFrom(kind, mode, InsertStable(kind, mode, sorted, Head(rest)), Tail(rest))

ArraySort(kind, mode, list) == SortFrom(kind, mode, <<>>, list)

\* ------------------------------------------------------- SortSpec: inputs

MaxSortLen == 2

NameAnna == <<"A", "n", "n", "a">>
NameBo == <<"B", "o">>
NameAase == <<"Å", "s", "e">>

SortNames == {NameAnna, NameBo, NameAase}

\* attendance_pct / party_loyalty_pct: a percentage or missing.
MetricValues == {None, Some(0), Some(90)}

SortProfiles ==
  [name : SortNames, attendance_pct : MetricValues, party_loyalty_pct : MetricValues]

SortRows ==
  [displayName : SortNames, attendanceAvg : MetricValues, memberCount : {1, 2}]

SortKinds == {"lib", "libLoyalty", "app", "rows"}

SortModesOf(kind) ==
  CASE kind = "lib" -> {"name", "attendance_desc", "attendance_asc"}
    [] kind = "libLoyalty" ->
         {"name", "attendance_desc", "attendance_asc", "loyalty_desc", "loyalty_asc"}
    [] kind = "app" ->
         {"name", "attendance_desc", "attendance_asc", "loyalty_desc", "loyalty_asc"}
    [] kind = "rows" -> {"name", "members_desc", "attendance_desc", "attendance_asc"}

SortPoolOf(kind) == IF kind = "rows" THEN SortRows ELSE SortProfiles

CmpInit ==
  /\ cmpPc = "input"
  /\ cmpKind \in SortKinds
  /\ cmpMode \in SortModesOf(cmpKind)
  /\ cmpList \in SeqsUpTo(SortPoolOf(cmpKind), MaxSortLen)
  /\ cmpOut = <<>>
  /\ cmpLR = 0
  /\ cmpRL = 0

\* list.sort(compare) as renderTable / applyFilters call it.
RunSort ==
  /\ cmpPc = "input"
  /\ cmpPc' = "sorted"
  /\ cmpOut' = ArraySort(cmpKind, cmpMode, cmpList)
  /\ UNCHANGED <<cmpKind, cmpMode, cmpList, cmpLR, cmpRL>>
  /\ UNCHANGED <<clsVars, rollVars, viewVars, bootVars, memoVars>>

\* One call of the comparator on a pair, and one on the swapped pair.
RunCompare ==
  /\ cmpPc = "input"
  /\ Len(cmpList) = 2
  /\ cmpPc' = "compared"
  /\ cmpLR' = SignOf(CompareBy(cmpKind, cmpMode, cmpList[1], cmpList[2]))
  /\ cmpRL' = SignOf(CompareBy(cmpKind, cmpMode, cmpList[2], cmpList[1]))
  /\ UNCHANGED <<cmpKind, cmpMode, cmpList, cmpOut>>
  /\ UNCHANGED <<clsVars, rollVars, viewVars, bootVars, memoVars>>

SortNext == RunSort \/ RunCompare

SortInit == CmpInit /\ ClsIdle /\ RollIdle /\ ViewIdle /\ BootIdle /\ MemoIdle

SortSpec == SortInit /\ [][SortNext]_vars

\* ------------------------------------------- VoteSortSpec: the votes list

DateJan == <<"2", "0", "2", "4", "-", "0", "1", "-", "0", "5">>
DateFeb == <<"2", "0", "2", "4", "-", "0", "2", "-", "0", "1">>

VOTE_SORTS == {"date_desc", "passed_first", "failed_first", "close_first", "split_first"}

\* The counts a vote may carry: absent, present with no yes/no votes at all,
\* or two different margins.
SortCounts ==
  {None, Some([for |-> 0, imod |-> 0]), Some([for |-> 50, imod |-> 45]),
   Some([for |-> 44, imod |-> 55])}

\* Votes as compareVotes reads them in one sort mode: the fields the mode
\* reads vary, the others hold one value.
SortVotesOf(mode) ==
  [afstemning_id : {1, 2},
   date : {DateJan, DateFeb},
   vedtaget : IF mode \in {"passed_first", "failed_first"} THEN BOOLEAN ELSE {TRUE},
   counts : IF mode \in {"close_first", "split_first"} THEN SortCounts ELSE {None},
   party_split_count : IF mode = "split_first" THEN {0, 1} ELSE {0}]

VoteCmpInit ==
  /\ cmpPc = "input"
  /\ cmpKind = "votes"
  /\ cmpMode \in VOTE_SORTS
  /\ cmpList \in SeqsUpTo(SortVotesOf(cmpMode), MaxSortLen)
  /\ cmpOut = <<>>
  /\ cmpLR = None
  /\ cmpRL = None

\* A result of compareVotes by its sign; missing stands for NaN.
ResultSign(result) == IF result = None THEN None ELSE Some(SignOf(result[1]))

\* state.filteredVotes = state.votes.filter(...).sort(compareVotes)
RunVoteSort ==
  /\ cmpPc = "input"
  /\ cmpPc' = "votesSorted"
  /\ cmpOut' = ArraySort(cmpKind, cmpMode, cmpList)
  /\ UNCHANGED <<cmpKind, cmpMode, cmpList, cmpLR, cmpRL>>
  /\ UNCHANGED <<clsVars, rollVars, viewVars, bootVars, memoVars>>

\* One call of compareVotes on a pair, and one on the swapped pair.
RunVoteCompare ==
  /\ cmpPc = "input"
  /\ Len(cmpList) = 2
  /\ cmpPc' = "votesCompared"
  /\ cmpLR' = ResultSign(CompareVotes(cmpList[1], cmpList[2], cmpMode))
  /\ cmpRL' = ResultSign(CompareVotes(cmpList[2], cmpList[1], cmpMode))
  /\ UNCHANGED <<cmpKind, cmpMode, cmpList, cmpOut>>
  /\ UNCHANGED <<clsVars, rollVars, viewVars, bootVars, memoVars>>

VoteSortNext == RunVoteSort \/ RunVoteCompare

VoteSortInit == VoteCmpInit /\ ClsIdle /\ RollIdle /\ ViewIdle /\ BootIdle /\ MemoIdle

VoteSortSpec == VoteSortInit /\ [][VoteSortNext]_vars

\* ------------------------------------------------------ party rollup builder

\* Party codes and names as texts.
CodeS == <<"S">>
CodeV == <<"V">>
CodeUFG == <<"U", "F", "G">>
NameSocialdemokratiet == <<"S", "o", "c", "i", "a", "l", "d", "e", "m", "o", "k", "r", "a", "t", "i", "e", "t">>
NameVenstre == <<"V", "e", "n", "s", "t", "r", "e">>
NameUdenForGrupperne == <<"U", "d", "e", "n", " ", "f", "o", "r", " ", "g", "r", "u", "p", "p", "e", "r", "n", "e">>
NameUdenParti == <<"U", "d", "e", "n", " ", "p", "a", "r", "t", "i">>
NameUkendtParti == <<"U", "k", "e", "n", "d", "t", " ", "p", "a", "r", "t", "i">>
GenericOutsidePhrase ==
  <<"u", "d", "e", "n", " ", "f", "o", "r", " ", "f", "o", "l", "k", "e", "t", "i", "n", "g", "s", "g", "r", "u", "p", "p", "e", "r", "n", "e">>
TextMinister == <<"m", "i", "n", "i", "s", "t", "e", "r">>
TextFhv == <<"f", "h", "v", ".">>

\* PARTY_NAMES[code]; missing for a code the table does not hold.
PARTY_NAMES(code) ==
  CASE code = CodeS -> Some(NameSocialdemokratiet)
    [] code = CodeV -> Some(NameVenstre)
    [] code = CodeUFG -> Some(NameUdenForGrupperne)
    [] OTHER -> None

NORTH_ATLANTIC_PARTIES == {<<"I", "A">>, <<"J", "F">>, <<"S", "P">>, <<"S", "I", "U">>, <<"N">>}

\* window.Folkevalget.partyDisplayName
PartyDisplayName(partyName, partyShort) ==
  LET name == IF partyName # <<>> THEN partyName
              ELSE IF partyShort # <<>> /\ PARTY_NAMES(partyShort) # None
                   THEN PARTY_NAMES(partyShort)[1]
                   ELSE <<>>
  IN IF name # <<>> /\ partyShort # <<>>
       THEN name \o <<" ", "(">> \o partyShort \o <<")">>
     ELSE IF name # <<>> THEN name
     ELSE IF partyShort # <<>> THEN partyShort
     ELSE NameUdenParti

IsNorthAtlanticMandate(profile) == profile.party_short \in NORTH_ATLANTIC_PARTIES

IsCurrentMinister(profile) ==
  LET role == ToLowerCase(profile.role)
  IN Includes(role, TextMinister) /\ ~Includes(role, TextFhv)

\* Set.prototype.add on an insertion-ordered set.
\* A set that keeps an element once per add.
AddRepeated(seq, x) == Append(seq, x)

AddUnique(seq, x) == IF x \in Range(seq) THEN seq ELSE Append(seq, x)

RECURSIVE AddAll(_, _)
AddAll(seq, items) ==
  IF items = <<>> THEN seq ELSE AddAll(AddUnique(seq, Head(items)), Tail(items))

\* entry.short_name || entry.name; undefined (missing) when both are absent.
EntryKey(entry) ==
  IF entry.short_name # <<>> THEN Some(entry.short_name)
  ELSE IF entry.name # <<>> THEN Some(entry.name)
  ELSE None

GroupIndex(groups, key) ==
  IF \E i \in 1..Len(groups) : groups[i].key = key
    THEN CHOOSE i \in 1..Len(groups) : groups[i].key = key
    ELSE 0

RECURSIVE GroupEntries(_, _)
\* The grouping loop of buildPartyRows: groupedParties in insertion order.
GroupEntries(groups, rest) ==
  IF rest = <<>> THEN groups
  ELSE LET entry == Head(rest)
           key == EntryKey(entry)
           found == GroupIndex(groups, key)
           base == IF found = 0
                   THEN Append(groups, [key |-> key, shortName |-> entry.short_name,
                                        rawNames |-> <<>>, memberIds |-> <<>>])
                   ELSE groups
           at == IF found = 0 THEN Len(base) ELSE found
           group == [base[at] EXCEPT
                       !.rawNames = IF entry.name # <<>> THEN AddUnique(@, entry.name) ELSE @,
                       !.memberIds = AddAll(@, entry.member_ids)]
       IN GroupEntries([base EXCEPT ![at] = group], Tail(rest))

\* profilesById.get(memberId): the last loaded profile with that id, if any.
ProfileById(profiles, id) ==
  IF \E i \in 1..Len(profiles) : profiles[i].id = id
    THEN Some(profiles[CHOOSE i \in 1..Len(profiles) :
                         /\ profiles[i].id = id
                         /\ \A j \in (i + 1)..Len(profiles) : profiles[j].id # id])
    ELSE None

RECURSIVE ResolveMembers(_, _)
\* [...group.memberIds].map(id => profilesById.get(id)).filter(Boolean)
ResolveMembers(memberIds, profiles) ==
  IF memberIds = <<>> THEN <<>>
  ELSE LET hit == ProfileById(profiles, Head(memberIds))
       IN (IF hit = None THEN <<>> ELSE <<hit[1]>>) \o ResolveMembers(Tail(memberIds), profiles)

RECURSIVE SumSeq(_)
SumSeq(values) == IF values = <<>> THEN 0 ELSE Head(values) + SumSeq(Tail(values))

\* Number(x.toFixed(1)) of sum / count, in tenths (round half up).
RoundedMeanTenths(sum, count) == (20 * sum + count) \div (2 * count)

AverageMetricNullAsZero(values) ==
  IF values = <<>> THEN None
  ELSE Some(RoundedMeanTenths(
              SumSeq([i \in 1..Len(values) |-> IF values[i] = None THEN 0 ELSE values[i][1]]),
              Len(values)))

\* PartiesApp.averageMetric: missing for no present value, else the mean in tenths.
AverageMetric(values) ==
  LET comparableValues == SelectSeq(values, LAMBDA v : v # None)
  IN IF Len(comparableValues) = 0 THEN None
     ELSE Some(RoundedMeanTenths(
                 SumSeq([i \in 1..Len(comparableValues) |-> comparableValues[i][1]]),
                 Len(comparableValues)))

FirstWhere(seq, Test(_)) ==
  IF \E i \in 1..Len(seq) : Test(seq[i])
    THEN Some(seq[CHOOSE i \in 1..Len(seq) :
                    Test(seq[i]) /\ \A j \in 1..(i - 1) : ~Test(seq[j])])
    ELSE None

\* PartiesApp.resolvePartyName
ResolvePartyName(shortName, rawNames, members) ==
  IF shortName = CodeUFG THEN PARTY_NAMES(shortName)[1]
  ELSE LET memberName ==
             FirstWhere(members, LAMBDA m : m.current_party # <<>> \/ m.party # <<>>)
           namedEntry ==
             FirstWhere(rawNames, LAMBDA n : ~Includes(ToLowerCase(n), GenericOutsidePhrase))
       IN IF memberName # None /\ memberName[1].current_party # <<>>
            THEN memberName[1].current_party
          ELSE IF memberName # None /\ memberName[1].party # <<>>
            THEN memberName[1].party
          ELSE IF namedEntry # None THEN namedEntry[1]
          ELSE IF PARTY_NAMES(shortName) # None THEN PARTY_NAMES(shortName)[1]
          ELSE IF shortName # <<>> THEN shortName
          ELSE NameUkendtParti

\* (member.committees || []).length
CommitteeCount(member) ==
  IF member.committees = None THEN 0 ELSE Len(member.committees[1])

CountWhere(seq, Test(_)) == Cardinality({i \in 1..Len(seq) : Test(seq[i])})

\* A row builder that keeps a group none of whose member ids resolves.
PartyRowOfKeepEmpty(group, profiles, withLoyalty) ==
  LET members == ResolveMembers(group.memberIds, profiles)
  IN Some([shortName |-> group.shortName, partyName |-> group.shortName,
           displayName |-> group.shortName, memberCount |-> Len(members),
           attendanceAvg |->
             AverageMetric([i \in 1..Len(members) |-> members[i].attendance_pct]),
           loyaltyAvg |->
             AverageMetric([i \in 1..Len(members) |-> members[i].party_loyalty_pct]),
           committeeAvg |-> None, ministerCount |-> 0, northAtlanticCount |-> 0])

\* The row buildPartyRows makes of one group, missing when no member id
\* resolves. withLoyalty: the parties page that also shows loyaltyAvg.
PartyRowOf(group, profiles, withLoyalty) ==
  LET members == ResolveMembers(group.memberIds, profiles)
      partyName == ResolvePartyName(group.shortName, group.rawNames, members)
      row == [shortName |-> group.shortName,
              partyName |-> partyName,
              displayName |-> PartyDisplayName(partyName, group.shortName),
              memberCount |-> Len(members),
              attendanceAvg |->
                AverageMetric([i \in 1..Len(members) |-> members[i].attendance_pct]),
              committeeAvg |->
                AverageMetric([i \in 1..Len(members) |-> Some(CommitteeCount(members[i]))]),
              ministerCount |-> CountWhere(members, IsCurrentMinister),
              northAtlanticCount |-> CountWhere(members, IsNorthAtlanticMandate)]
  IN IF Len(members) = 0 THEN None
     ELSE IF withLoyalty
       THEN Some([shortName |-> row.shortName, partyName |-> row.partyName,
                  displayName |-> row.displayName, memberCount |-> row.memberCount,
                  attendanceAvg |-> row.attendanceAvg,
                  loyaltyAvg |->
                    AverageMetric([i \in 1..Len(members) |-> members[i].party_loyalty_pct]),
                  committeeAvg |-> row.committeeAvg, ministerCount |-> row.ministerCount,
                  northAtlanticCount |-> row.northAtlanticCount])
       ELSE Some(row)

RECURSIVE RowsOfGroups(_, _, _)
\* groups.map(rowOf).filter(Boolean)
RowsOfGroups(groups, profiles, withLoyalty) ==
  IF groups = <<>> THEN <<>>
  ELSE LET row == PartyRowOf(Head(groups), profiles, withLoyalty)
       IN (IF row = None THEN <<>> ELSE <<row[1]>>)
            \o RowsOfGroups(Tail(groups), profiles, withLoyalty)

\* PartiesApp.buildPartyRows
BuildPartyRows(profiles, partyEntries, withLoyalty) ==
  RowsOfGroups(GroupEntries(<<>>, partyEntries), profiles, withLoyalty)

\* RollupSpec: a loaded profile collection and party roster, rolled up once.
MaxEntries == 2

CommitteeFIU == [short_name |-> <<"F", "I", "U">>, name |-> <<"F", "i", "n", "a", "n", "s", "u", "d", "v", "a", "l", "g", "e", "t">>]
CommitteeEUU == [short_name |-> <<"E", "U", "U">>, name |-> <<"E", "u", "r", "o", "p", "a", "u", "d", "v", "a", "l", "g", "e", "t">>]

\* What the rollup reads of a profile with the given id: every metric
\* present, every metric missing, attendance only, or a member that changed
\* party (party holds the former party, current_party the present one).
RollProfileVariants(id) ==
  {[id |-> id, name |-> NameAnna, party |-> <<>>, party_short |-> CodeS,
    current_party |-> <<>>, role |-> TextMinister,
    committees |-> Some(<<CommitteeFIU, CommitteeEUU>>),
    attendance_pct |-> Some(80), party_loyalty_pct |-> Some(90)],
   [id |-> id, name |-> NameBo, party |-> <<>>, party_short |-> <<>>,
    current_party |-> <<>>, role |-> <<>>,
    committees |-> None,
    attendance_pct |-> None, party_loyalty_pct |-> None],
   [id |-> id, name |-> NameAase, party |-> NameVenstre, party_short |-> CodeV,
    current_party |-> <<>>, role |-> <<>>,
    committees |-> Some(<<>>),
    attendance_pct |-> Some(75), party_loyalty_pct |-> None],
   [id |-> id, name |-> NameBo, party |-> NameVenstre, party_short |-> CodeS,
    current_party |-> NameSocialdemokratiet, role |-> <<>>,
    committees |-> Some(<<CommitteeFIU>>),
    attendance_pct |-> Some(90), party_loyalty_pct |-> Some(70)]}

RollProfileLists ==
  {<<a, b, c>> : a \in {p \in RollProfileVariants(1) : p.current_party = <<>>},
                 b \in RollProfileVariants(2),
                 c \in {p \in RollProfileVariants(3) : p.name = NameAase}}

\* Roster entries; id 9 is a stale id that no loaded profile carries.
RollEntryPool ==
  [short_name : {<<>>, CodeS, CodeV},
   name : {<<>>, NameSocialdemokratiet},
   member_ids : {<<1, 2>>, <<2, 3>>, <<9>>}]

RollInit ==
  /\ rollPc = "loaded"
  /\ rollProfiles \in RollProfileLists
  /\ rollEntries \in SeqsUpTo(RollEntryPool, MaxEntries)
  /\ rollRows = <<>>

\* state.rows = buildPartyRows(profiles, parties) of the current parties page.
BuildRows ==
  /\ rollPc = "loaded"
  /\ rollPc' = "built"
  /\ rollRows' = BuildPartyRows(rollProfiles, rollEntries, FALSE)
  /\ UNCHANGED <<rollProfiles, rollEntries>>
  /\ UNCHANGED <<cmpVars, clsVars, viewVars, bootVars, memoVars>>

\* The same of the parties page that also shows the loyalty average.
BuildRowsWithLoyalty ==
  /\ rollPc = "loaded"
  /\ rollPc' = "builtWithLoyalty"
  /\ rollRows' = BuildPartyRows(rollProfiles, rollEntries, TRUE)
  /\ UNCHANGED <<rollProfiles, rollEntries>>
  /\ UNCHANGED <<cmpVars, clsVars, viewVars, bootVars, memoVars>>

RollupNext == BuildRows \/ BuildRowsWithLoyalty

RollupInit == RollInit /\ CmpIdle /\ ClsIdle /\ ViewIdle /\ BootIdle /\ MemoIdle

RollupSpec == RollupInit /\ [][RollupNext]_vars

\* VotesApp.formatPartyLabel
FormatPartyLabel(partyKey) ==
  IF partyKey = <<>> THEN NameUdenParti
  ELSE IF Len(partyKey) <= 4 /\ \A i \in 1..Len(partyKey) : IsUpper(partyKey[i])
    THEN PartyDisplayName(<<>>, partyKey)
  ELSE partyKey

\* VotesApp.splitPartyLabels
SplitPartyLabels(vote) ==
  ArraySort("labels", "name",
            [i \in 1..Len(SplitEntries(vote)) |-> FormatPartyLabel(SplitEntries(vote)[i].key)])

\* ------------------------------------------------- ClassifySpec: inputs

\* ClassifySpec: one vote record, classified once.
CountValues == {0, 44, 45, 50, 54, 55}

\* vote_groups_by_party as its entries, in key order; a group may lack a
\* list.
GroupsPool ==
  {None,
   Some(<<[key |-> CodeS, for |-> Some(<<1, 2>>), imod |-> Some(<<>>)]>>),
   Some(<<[key |-> CodeS, for |-> Some(<<1>>), imod |-> None],
          [key |-> NameVenstre, for |-> Some(<<3>>), imod |-> Some(<<4>>)]>>),
   Some(<<[key |-> CodeV, for |-> Some(<<3>>), imod |-> Some(<<4>>)],
          [key |-> CodeS, for |-> Some(<<1>>), imod |-> Some(<<2>>)],
          [key |-> <<>>, for |-> Some(<<5>>), imod |-> Some(<<6>>)]>>)}

ClassifyVotes ==
  [counts : {None} \cup {Some(c) : c \in [for : CountValues, imod : CountValues]},
   party_split_count : {0, 1, 2},
   vote_groups_by_party : GroupsPool]

ClsInit ==
  /\ clsPc = "input"
  /\ clsVote \in ClassifyVotes
  /\ clsOut = <<>>

ClassifyVote ==
  /\ clsPc = "input"
  /\ clsPc' = "done"
  /\ clsOut' = [decisionTotal |-> VoteDecisionTotal(clsVote),
                marginSharePct |-> VoteMarginSharePct(clsVote),
                isClose |-> IsCloseVote(clsVote),
                hasPartySplit |-> HasPartySplit(clsVote),
                splitParties |-> SplitPartyLabels(clsVote)]
  /\ UNCHANGED clsVote
  /\ UNCHANGED <<cmpVars, rollVars, viewVars, bootVars, memoVars>>

ClassifyNext == ClassifyVote

ClassifyInit == ClsInit /\ CmpIdle /\ RollIdle /\ ViewIdle /\ BootIdle /\ MemoIdle

ClassifySpec == ClassifyInit /\ [][ClassifyNext]_vars

\* --------------------------------------------------------- view controllers

\* The controllers (view): "discover" and "discoverOld", the profile search
\* page as it is now and as discover.js has it; "votes"; "parties" and
\* "partiesOld", likewise; "legacy", the profile grid of app.js.
\* What a handler renders is left out unless the code reads it back into the
\* state (the party select of the votes page); so are the handlers that only
\* open and close the filter panel of the profile search page.

TextFyn == <<"F", "y", "n">>

\* data/profiler.json as the controllers read it.
CatalogueProfiles ==
  <<[id |-> 1, name |-> NameAnna, party |-> NameSocialdemokratiet, party_short |-> CodeS,
     current_party |-> <<>>, role |-> <<"M">> \o Tail(TextMinister), storkreds |-> TextFyn,
     committees |-> Some(<<CommitteeFIU>>),
     educations |-> None, occupations |-> None, constituency_history |-> None,
     attendance_pct |-> Some(90), party_loyalty_pct |-> Some(90)],
    [id |-> 2, name |-> NameBo, party |-> NameVenstre, party_short |-> <<>>,
     current_party |-> <<>>, role |-> <<>>, storkreds |-> <<>>,
     committees |-> None,
     educations |-> Some(<< <<"c", "a", "f", "é">> >>), occupations |-> None,
     constituency_history |-> Some(<<TextFyn>>),
     attendance_pct |-> None, party_loyalty_pct |-> None],
    [id |-> 3, name |-> NameAase, party |-> <<>>, party_short |-> CodeV,
     current_party |-> <<>>, role |-> <<>>, storkreds |-> TextFyn,
     committees |-> Some(<<CommitteeFIU, CommitteeEUU>>),
     educations |-> None, occupations |-> Some(<< <<"l", "æ", "g", "e">> >>),
     constituency_history |-> None,
     attendance_pct |-> Some(75), party_loyalty_pct |-> None]>>

\* data/afstemninger.json as the votes page reads it; vote_groups_by_party is
\* held by its keys.
CatalogueVotes ==
  <<[afstemning_id |-> 11, sag_number |-> <<"L", " ", "1">>, sag_short_title |-> TextFyn,
     sag_title |-> <<>>, type |-> <<>>, konklusion |-> <<>>,
     date |-> <<"2", "0", "2", "4", "-", "0", "1", "-", "0", "5">>, vedtaget |-> TRUE,
     counts |-> Some([for |-> 50, imod |-> 45]), party_split_count |-> 1,
     vote_groups_by_party |-> <<CodeS, CodeV>>],
    [afstemning_id |-> 12, sag_number |-> <<"B", " ", "2">>, sag_short_title |-> <<>>,
     sag_title |-> TextFyn, type |-> <<>>, konklusion |-> <<>>,
     date |-> <<"2", "0", "2", "4", "-", "0", "2", "-", "0", "1">>, vedtaget |-> FALSE,
     counts |-> Some([for |-> 0, imod |-> 0]), party_split_count |-> 0,
     vote_groups_by_party |-> <<CodeS>>],
    [afstemning_id |-> 13, sag_number |-> <<>>, sag_short_title |-> <<>>,
     sag_title |-> <<>>, type |-> <<>>, konklusion |-> <<>>,
     date |-> <<"2", "0", "2", "4", "-", "0", "2", "-", "0", "1">>, vedtaget |-> TRUE,
     counts |-> None, party_split_count |-> 0,
     vote_groups_by_party |-> <<>>]>>

\* data/partier.json
PartyRoster ==
  <<[short_name |-> CodeS, name |-> NameSocialdemokratiet, member_ids |-> <<1>>],
    [short_name |-> CodeV, name |-> <<>>, member_ids |-> <<2, 3>>]>>

\* What a visitor types into a search field.
QueryInputs == {<<>>, <<" ", "F", "y", "n">>, <<"a", "a", "s", "e">>, <<"x">>}

\* URLSearchParams, by the decoded value of each parameter the controllers
\* read (missing when the parameter is absent).
NoParams ==
  [q |-> None, storkreds |-> None, party |-> None, committee |-> None,
   sort |-> None, close |-> None, split |-> None, id |-> None]

SortTokens ==
  {"name", "attendance_desc", "attendance_asc", "members_desc", "close_first",
   "bogus", ""}

\* The query strings a page is opened with.
SearchPool ==
  {NoParams}
    \cup {[NoParams EXCEPT !.sort = Some(t)] : t \in SortTokens}
    \cup {[NoParams EXCEPT !.q = Some(<<" ", "F", "y", "n">>), !.party = Some(CodeS)],
          [NoParams EXCEPT !.storkreds = Some(TextFyn),
                           !.committee = Some(CommitteeEUU.short_name)],
          [NoParams EXCEPT !.close = Some(<<"1">>), !.id = Some(<<"1", "2">>),
                           !.party = Some(CodeS)],
          [NoParams EXCEPT !.split = Some(<<"1">>), !.id = Some(<<"x">>)],
          [NoParams EXCEPT !.close = Some(<<"0">>), !.id = Some(<<"9", "9">>)],
          [NoParams EXCEPT !.party = Some(<<"X">>)]}

\* params.get(key) || ""
TextParam(param) == IF param = None THEN <<>> ELSE param[1]

\* params.get("sort") || fallback
SortParam(param, fallback) == IF param = None \/ param[1] = "" THEN fallback ELSE param[1]

DecimalDigits == <<"0", "1", "2", "3", "4", "5", "6", "7", "8", "9">>

RECURSIVE ToNumber(_)
\* Number(text) of a text of decimal digits or of other characters; missing
\* stands for NaN.
ToNumber(text) ==
  IF text = <<>> THEN Some(0)
  ELSE IF text[Len(text)] \notin Digits THEN None
  ELSE LET front == ToNumber(SubSeq(text, 1, Len(text) - 1))
       IN IF front = None THEN None
          ELSE Some(10 * front[1] + IndexIn(DecimalDigits, text[Len(text)]) - 1)

RECURSIVE NumberToString(_)
\* String(n) of a non-negative integer.
NumberToString(n) ==
  IF n < 10 THEN <<DecimalDigits[n + 1]>>
  ELSE NumberToString(n \div 10) \o <<DecimalDigits[(n % 10) + 1]>>

\* The state object of a controller as its script creates it.
InitialState(v) ==
  [profiles |-> <<>>, filteredProfiles |-> <<>>, votes |-> <<>>, filteredVotes |-> <<>>,
   rows |-> <<>>, query |-> <<>>, constituencyFilter |-> <<>>, partyFilter |-> <<>>,
   committeeFilter |-> <<>>, closeOnly |-> FALSE, splitOnly |-> FALSE,
   selectedVoteId |-> None, selectedId |-> None,
   sortMode |-> CASE v = "discoverOld" -> "attendance_desc"
                  [] v = "votes" -> "date_desc"
                  [] v = "partiesOld" -> "members_desc"
                  [] OTHER -> "name"]

VALID_SORTS(v) ==
  CASE v = "discover" -> {"name", "attendance_desc", "attendance_asc"}
    [] v = "votes" -> {"date_desc", "passed_first", "failed_first", "close_first", "split_first"}
    [] v = "parties" -> {"name", "members_desc", "attendance_desc", "attendance_asc"}

\* DiscoverApp.hydrateStateFromQuery (current)
DiscoverHydrate(params, s) ==
  LET sortMode == SortParam(params.sort, "name")
  IN [s EXCEPT !.query = TextParam(params.q),
               !.constituencyFilter = TextParam(params.storkreds),
               !.partyFilter = TextParam(params.party),
               !.committeeFilter = TextParam(params.committee),
               !.sortMode = IF sortMode \in VALID_SORTS("discover") THEN sortMode ELSE "name"]

\* DiscoverApp.hydrateStateFromQuery (discover.js)
DiscoverOldHydrate(params, s) ==
  [s EXCEPT !.query = TextParam(params.q),
            !.constituencyFilter = TextParam(params.storkreds),
            !.partyFilter = TextParam(params.party),
            !.committeeFilter = TextParam(params.committee),
            !.sortMode = SortParam(params.sort, "attendance_desc")]

\* VotesApp.hydrateStateFromQuery
VotesHydrate(params, s) ==
  LET sortMode == SortParam(params.sort, "date_desc")
      rawVoteId == IF params.id = None THEN Some(0) ELSE ToNumber(params.id[1])
  IN [s EXCEPT !.query = TextParam(params.q),
               !.partyFilter = TextParam(params.party),
               !.sortMode = IF sortMode \in VALID_SORTS("votes") THEN sortMode ELSE "date_desc",
               !.closeOnly = (params.close = Some(<<"1">>)),
               !.splitOnly = (params.split = Some(<<"1">>)),
               !.selectedVoteId =
                 IF rawVoteId # None /\ rawVoteId[1] > 0 THEN rawVoteId ELSE None]

\* PartiesApp.hydrateStateFromQuery (current)
PartiesHydrate(params, s) ==
  LET sortMode == SortParam(params.sort, "name")
  IN [s EXCEPT !.sortMode = IF sortMode \in VALID_SORTS("parties") THEN sortMode ELSE "name"]

\* PartiesApp.hydrateStateFromQuery (discover.js)
PartiesOldHydrate(params, s) ==
  [s EXCEPT !.sortMode = SortParam(params.sort, "members_desc")]

\* The hydrateStateFromQuery of the page's controller; the legacy grid reads
\* no query string.
HydrateStateFromQuery(v, params, s) ==
  CASE v = "discover" -> DiscoverHydrate(params, s)
    [] v = "discoverOld" -> DiscoverOldHydrate(params, s)
    [] v = "votes" -> VotesHydrate(params, s)
    [] v = "parties" -> PartiesHydrate(params, s)
    [] v = "partiesOld" -> PartiesOldHydrate(params, s)
    [] v = "legacy" -> s

\* if (condition) params.set(key, value)
SetIf(condition, value) == IF condition THEN Some(value) ELSE None

\* DiscoverApp.syncQueryString (current): the parameters of the URL it hands
\* to history.replaceState; none of them set is the bare pathname.
DiscoverSync(s) ==
  [NoParams EXCEPT !.q = SetIf(Trim(s.query) # <<>>, Trim(s.query)),
                   !.storkreds = SetIf(s.constituencyFilter # <<>>, s.constituencyFilter),
                   !.party = SetIf(s.partyFilter # <<>>, s.partyFilter),
                   !.committee = SetIf(s.committeeFilter # <<>>, s.committeeFilter),
                   !.sort = SetIf(s.sortMode # "" /\ s.sortMode # "name", s.sortMode)]

\* DiscoverApp.syncQueryString (discover.js)
DiscoverOldSync(s) ==
  [NoParams EXCEPT !.q = SetIf(Trim(s.query) # <<>>, Trim(s.query)),
                   !.storkreds = SetIf(s.constituencyFilter # <<>>, s.constituencyFilter),
                   !.party = SetIf(s.partyFilter # <<>>, s.partyFilter),
                   !.committee = SetIf(s.committeeFilter # <<>>, s.committeeFilter),
                   !.sort = SetIf(s.sortMode # "" /\ s.sortMode # "attendance_asc", s.sortMode)]

\* VotesApp.syncQueryString
VotesSync(s) ==
  [NoParams EXCEPT !.q = SetIf(Trim(s.query) # <<>>, Trim(s.query)),
                   !.id = IF s.selectedVoteId # None /\ s.selectedVoteId[1] # 0
                          THEN Some(NumberToString(s.selectedVoteId[1])) ELSE None,
                   !.party = SetIf(s.partyFilter # <<>>, s.partyFilter),
                   !.sort = SetIf(s.sortMode # "date_desc", s.sortMode),
                   !.close = SetIf(s.closeOnly, <<"1">>),
                   !.split = SetIf(s.splitOnly, <<"1">>)]

\* PartiesApp.syncQueryString (current)
PartiesSync(s) == [NoParams EXCEPT !.sort = SetIf(s.sortMode # "name", s.sortMode)]

\* PartiesApp.syncQueryString (discover.js)
PartiesOldSync(s) == [NoParams EXCEPT !.sort = SetIf(s.sortMode # "members_desc", s.sortMode)]

SyncQueryString(v, s) ==
  CASE v = "discover" -> DiscoverSync(s)
    [] v = "discoverOld" -> DiscoverOldSync(s)
    [] v = "votes" -> VotesSync(s)
    [] v = "parties" -> PartiesSync(s)
    [] v = "partiesOld" -> PartiesOldSync(s)

\* list || []
OrEmpty(list) == IF list = None THEN <<>> ELSE list[1]

\* profile.party_short || profile.party || ""
PartyValue(profile) ==
  IF profile.party_short # <<>> THEN profile.party_short ELSE profile.party

\* rawSearchable of DiscoverApp.applyFilters; discover.js joins fewer fields.
RawSearchable(v, profile) ==
  LET committees ==
        [i \in 1..Len(OrEmpty(profile.committees)) |->
           OrEmpty(profile.committees)[i].short_name \o <<" ">>
             \o OrEmpty(profile.committees)[i].name]
      fields ==
        IF v = "discover"
        THEN <<profile.name, profile.party, profile.party_short, profile.role,
               profile.storkreds>>
               \o OrEmpty(profile.educations) \o OrEmpty(profile.occupations)
               \o OrEmpty(profile.constituency_history) \o committees
        ELSE <<profile.name, profile.party, profile.party_short, profile.role>>
               \o committees
  IN ToLowerCase(JoinSpace(FilterTruthy(fields)))

\* A filter callback that leaves the committee out.
PassesDiscoverFiltersNoCommittee(v, s, profile) ==
  LET rawQuery == ToLowerCase(Trim(s.query))
      rawSearchable == RawSearchable(v, profile)
  IN /\ \/ rawQuery = <<>>
        \/ Includes(NormaliseText(rawSearchable), NormaliseText(s.query))
        \/ Includes(rawSearchable, rawQuery)
     /\ s.constituencyFilter = <<>> \/ profile.storkreds = s.constituencyFilter
     /\ s.partyFilter = <<>> \/ PartyValue(profile) = s.partyFilter

\* The filter callback of DiscoverApp.applyFilters.
PassesDiscoverFilters(v, s, profile) ==
  LET rawQuery == ToLowerCase(Trim(s.query))
      query == NormaliseText(s.query)
      rawSearchable == RawSearchable(v, profile)
      searchable == NormaliseText(rawSearchable)
      matchesQuery ==
        rawQuery = <<>> \/ Includes(searchable, query) \/ Includes(rawSearchable, rawQuery)
      matchesConstituency ==
        s.constituencyFilter = <<>> \/ profile.storkreds = s.constituencyFilter
      matchesParty == s.partyFilter = <<>> \/ PartyValue(profile) = s.partyFilter
      matchesCommittee ==
        \/ s.committeeFilter = <<>>
        \/ \E i \in 1..Len(OrEmpty(profile.committees)) :
             OrEmpty(profile.committees)[i].short_name = s.committeeFilter
  IN matchesQuery /\ matchesConstituency /\ matchesParty /\ matchesCommittee

\* An applyFilters that sorts the loaded collection itself and filters the
\* result.
ApplyFiltersInPlace(v, s) ==
  LET sorted == ArraySort(IF v = "discover" THEN "lib" ELSE "libLoyalty", s.sortMode,
                          s.profiles)
  IN [s EXCEPT !.profiles = sorted,
               !.filteredProfiles =
                 SelectSeq(sorted, LAMBDA profile : PassesDiscoverFilters(v, s, profile))]

\* DiscoverApp.applyFilters, up to its call of syncQueryString.
ApplyFilters(v, s) ==
  [s EXCEPT !.filteredProfiles =
     ArraySort(IF v = "discover" THEN "lib" ELSE "libLoyalty", s.sortMode,
               SelectSeq(s.profiles, LAMBDA profile : PassesDiscoverFilters(v, s, profile)))]

\* The filter callback of VotesApp.applyVoteFilter.
PassesVoteFilter(s, vote) ==
  LET query == NormaliseText(s.query)
      searchable ==
        NormaliseText(JoinSpace(FilterTruthy(
          <<vote.sag_number, vote.sag_short_title, vote.sag_title, vote.type,
            vote.konklusion, vote.date>>)))
  IN IF s.closeOnly /\ ~IsCloseVote(vote) THEN FALSE
     ELSE IF s.splitOnly /\ ~HasPartySplit(vote) THEN FALSE
     ELSE IF query = <<>> THEN TRUE
     ELSE Includes(searchable, query)

\* A renderSelectedVote that leaves the party filter as it finds it.
RenderSelectedVoteKeepParty(s) == s

\* VotesApp.renderSelectedVote with its renderPartyFilter: a party filter that
\* is not a party of the selected vote is reset.
RenderSelectedVote(s) ==
  LET found == SelectSeq(s.filteredVotes,
                         LAMBDA vote : Some(vote.afstemning_id) = s.selectedVoteId)
  IN IF found = <<>> THEN s
     ELSE IF s.partyFilter # <<>> /\ s.partyFilter \in Range(found[1].vote_groups_by_party)
       THEN s
       ELSE [s EXCEPT !.partyFilter = <<>>]

\* An applyVoteFilter that keeps a selection the filter has removed.
ApplyVoteFilterKeepSelection(s) ==
  RenderSelectedVote(
    [s EXCEPT !.filteredVotes =
       ArraySort("votes", s.sortMode,
                 SelectSeq(s.votes, LAMBDA vote : PassesVoteFilter(s, vote)))])

\* The end of applyVoteFilter: a selection that the new filtered list does
\* not show gives way to the list's first vote, or to none, and the party
\* filter is reset; then renderSelectedVote.
VotesReselect(s, filteredVotes) ==
  LET selectedShown ==
        \E i \in 1..Len(filteredVotes) :
          Some(filteredVotes[i].afstemning_id) = s.selectedVoteId
  IN RenderSelectedVote(
       IF selectedShown THEN [s EXCEPT !.filteredVotes = filteredVotes]
       ELSE [s EXCEPT !.filteredVotes = filteredVotes,
                      !.selectedVoteId =
                        IF filteredVotes = <<>> THEN None
                        ELSE Some(filteredVotes[1].afstemning_id),
                      !.partyFilter = <<>>])

\* VotesApp.applyVoteFilter, up to its call of syncQueryString.
ApplyVoteFilter(s) ==
  VotesReselect(s, ArraySort("votes", s.sortMode,
                             SelectSeq(s.votes, LAMBDA vote : PassesVoteFilter(s, vote))))

\* The filter callback of the legacy grid's applyFilters.
LegacyPasses(s, profile) ==
  LET searchable ==
        ToLowerCase(JoinSpace(FilterTruthy(
          <<profile.name, profile.party, profile.party_short>>)))
  IN /\ s.partyFilter = <<>> \/ PartyValue(profile) = s.partyFilter
     /\ s.query = <<>> \/ Includes(searchable, s.query)

\* The end of the legacy grid's applyFilters, with the selectProfile it calls.
LegacyReselect(s, filteredProfiles) ==
  LET selectedShown ==
        \E i \in 1..Len(filteredProfiles) : Some(filteredProfiles[i].id) = s.selectedId
  IN [s EXCEPT !.filteredProfiles = filteredProfiles,
               !.selectedId =
                 IF selectedShown THEN s.selectedId
                 ELSE IF filteredProfiles # <<>> THEN Some(filteredProfiles[1].id)
                 ELSE None]

\* applyFilters of the legacy grid (app.js).
LegacyApplyFilters(s) ==
  LegacyReselect(s, ArraySort("app", s.sortMode,
                              SelectSeq(s.profiles, LAMBDA profile : LegacyPasses(s, profile))))

\* The values a select element offers for the state field it sets: the sort
\* modes, or "" and what the populate functions read from the loaded data.
SelectOptions(v, key, s) ==
  LET committees == UNION {Range(OrEmpty(profile.committees)) : profile \in Range(s.profiles)}
      shown == SelectSeq(s.filteredVotes,
                         LAMBDA vote : Some(vote.afstemning_id) = s.selectedVoteId)
  IN CASE key = "sortMode" ->
            (CASE v \in {"discover", "votes", "parties"} -> VALID_SORTS(v)
               [] v = "discoverOld" -> {"name", "attendance_desc", "attendance_asc"}
               [] v = "partiesOld" ->
                    {"members_desc", "name", "attendance_desc", "attendance_asc",
                     "loyalty_desc", "loyalty_asc"}
               [] v = "legacy" ->
                    {"name", "attendance_desc", "attendance_asc", "loyalty_desc",
                     "loyalty_asc"})
       [] key = "constituencyFilter" ->
            {<<>>} \cup {profile.storkreds : profile \in Range(s.profiles)}
       [] key = "partyFilter" /\ v # "votes" ->
            {<<>>} \cup {PartyValue(profile) : profile \in Range(s.profiles)}
       [] key = "partyFilter" /\ v = "votes" ->
            {<<>>} \cup (IF shown = <<>> THEN {} ELSE Range(shown[1].vote_groups_by_party))
       [] key = "committeeFilter" ->
            {<<>>} \cup {committee.short_name : committee \in committees}

\* ViewSpec: a page is opened with some query string and used.
ViewInit ==
  /\ view \in {"discover", "discoverOld", "votes", "parties", "partiesOld", "legacy"}
  /\ phase = "start"
  /\ search \in SearchPool
  /\ replaced = FALSE
  /\ state = InitialState(view)
  /\ CmpIdle /\ ClsIdle /\ RollIdle /\ BootIdle /\ MemoIdle

\* boot() up to its await: hydrateStateFromQuery (none in the legacy grid).
BootHydrate ==
  /\ phase = "start"
  /\ phase' = "loading"
  /\ state' = HydrateStateFromQuery(view, search, state)
  /\ UNCHANGED <<view, search, replaced>>
  /\ UNCHANGED <<cmpVars, clsVars, rollVars, bootVars, memoVars>>

\* DiscoverApp.boot once loadCatalogueData has resolved.
DiscoverBootLoaded ==
  /\ phase = "loading" /\ view \in {"discover", "discoverOld"}
  /\ \E profiles \in {<<>>, CatalogueProfiles} :
       state' = ApplyFilters(view, [state EXCEPT !.profiles = profiles])
  /\ search' = SyncQueryString(view, state') /\ replaced' = TRUE
  /\ phase' = "ready"
  /\ UNCHANGED view
  /\ UNCHANGED <<cmpVars, clsVars, rollVars, bootVars, memoVars>>

\* VotesApp.boot once loadCatalogueData and loadVoteData have resolved.
VotesBootLoaded ==
  /\ phase = "loading" /\ view = "votes"
  /\ \E votes \in {<<>>, CatalogueVotes} :
       state' = ApplyVoteFilter([state EXCEPT !.profiles = CatalogueProfiles,
                                              !.votes = votes])
  /\ search' = SyncQueryString(view, state') /\ replaced' = TRUE
  /\ phase' = "ready"
  /\ UNCHANGED view
  /\ UNCHANGED <<cmpVars, clsVars, rollVars, bootVars, memoVars>>

\* PartiesApp.boot once the catalogue and the roster have resolved; it
\* renders and writes no URL.
PartiesBootLoaded ==
  /\ phase = "loading" /\ view \in {"parties", "partiesOld"}
  /\ \E profiles \in {CatalogueProfiles, Tail(CatalogueProfiles)} :
       state' = [state EXCEPT !.rows =
                   BuildPartyRows(profiles, PartyRoster, view = "partiesOld")]
  /\ phase' = "ready"
  /\ UNCHANGED <<view, search, replaced>>
  /\ UNCHANGED <<cmpVars, clsVars, rollVars, bootVars, memoVars>>

\* boot of the legacy grid once its fetches have settled.
LegacyBootLoaded ==
  /\ phase = "loading" /\ view = "legacy"
  /\ \E profiles \in {<<>>, CatalogueProfiles} :
       state' = LegacyApplyFilters([state EXCEPT !.profiles = profiles,
                                                 !.filteredProfiles = profiles])
  /\ phase' = "ready"
  /\ UNCHANGED <<view, search, replaced>>
  /\ UNCHANGED <<cmpVars, clsVars, rollVars, bootVars, memoVars>>

\* searchInput "input" of the profile search page.
DiscoverSearchInput ==
  /\ phase = "ready" /\ view \in {"discover", "discoverOld"}
  /\ \E value \in QueryInputs :
       state' = ApplyFilters(view, [state EXCEPT !.query = value])
  /\ search' = SyncQueryString(view, state') /\ replaced' = TRUE
  /\ UNCHANGED <<view, phase>>
  /\ UNCHANGED <<cmpVars, clsVars, rollVars, bootVars, memoVars>>

\* The "change" handlers of the constituency, party, committee and sort
\* selects of the profile search page: each stores the chosen value in its
\* state field and calls applyFilters.
DiscoverSelectChange ==
  /\ phase = "ready" /\ view \in {"discover", "discoverOld"}
  /\ \E key \in {"constituencyFilter", "partyFilter", "committeeFilter", "sortMode"} :
       \E value \in SelectOptions(view, key, state) :
         state' = ApplyFilters(view, [state EXCEPT ![key] = value])
  /\ search' = SyncQueryString(view, state') /\ replaced' = TRUE
  /\ UNCHANGED <<view, phase>>
  /\ UNCHANGED <<cmpVars, clsVars, rollVars, bootVars, memoVars>>

\* activeFilters "click" on a clear button (current page only).
DiscoverClearFilter ==
  /\ phase = "ready" /\ view = "discover"
  /\ \E filterKey \in {"query", "storkreds", "party", "committee"} :
       state' = ApplyFilters(view,
         CASE filterKey = "query" -> [state EXCEPT !.query = <<>>]
           [] filterKey = "storkreds" -> [state EXCEPT !.constituencyFilter = <<>>]
           [] filterKey = "party" -> [state EXCEPT !.partyFilter = <<>>]
           [] filterKey = "committee" -> [state EXCEPT !.committeeFilter = <<>>])
  /\ search' = SyncQueryString(view, state') /\ replaced' = TRUE
  /\ UNCHANGED <<view, phase>>
  /\ UNCHANGED <<cmpVars, clsVars, rollVars, bootVars, memoVars>>

\* voteSearch "input"
VotesSearchInput ==
  /\ phase = "ready" /\ view = "votes"
  /\ \E value \in QueryInputs :
       state' = ApplyVoteFilter([state EXCEPT !.query = value])
  /\ search' = SyncQueryString(view, state') /\ replaced' = TRUE
  /\ UNCHANGED <<view, phase>>
  /\ UNCHANGED <<cmpVars, clsVars, rollVars, bootVars, memoVars>>

\* voteSortSelect "change"
VotesSortChange ==
  /\ phase = "ready" /\ view = "votes"
  /\ \E value \in SelectOptions(view, "sortMode", state) :
       state' = ApplyVoteFilter([state EXCEPT !.sortMode = value])
  /\ search' = SyncQueryString(view, state') /\ replaced' = TRUE
  /\ UNCHANGED <<view, phase>>
  /\ UNCHANGED <<cmpVars, clsVars, rollVars, bootVars, memoVars>>

\* voteCloseOnly and voteSplitOnly "change": each stores the checkbox in its
\* flag and calls applyVoteFilter.
VotesFlagChange ==
  /\ phase = "ready" /\ view = "votes"
  /\ \E key \in {"closeOnly", "splitOnly"} : \E checked \in BOOLEAN :
       state' = ApplyVoteFilter([state EXCEPT ![key] = checked])
  /\ search' = SyncQueryString(view, state') /\ replaced' = TRUE
  /\ UNCHANGED <<view, phase>>
  /\ UNCHANGED <<cmpVars, clsVars, rollVars, bootVars, memoVars>>

\* voteList "click" on the button of a listed vote.
VotesListClick ==
  /\ phase = "ready" /\ view = "votes"
  /\ \E i \in 1..Len(state.filteredVotes) :
       state' = RenderSelectedVote(
         [state EXCEPT !.selectedVoteId =
            ToNumber(NumberToString(state.filteredVotes[i].afstemning_id))])
  /\ search' = SyncQueryString(view, state') /\ replaced' = TRUE
  /\ UNCHANGED <<view, phase>>
  /\ UNCHANGED <<cmpVars, clsVars, rollVars, bootVars, memoVars>>

\* votePartyFilter "change"
VotesPartyFilterChange ==
  /\ phase = "ready" /\ view = "votes"
  /\ \E value \in SelectOptions(view, "partyFilter", state) :
       state' = RenderSelectedVote([state EXCEPT !.partyFilter = value])
  /\ search' = SyncQueryString(view, state') /\ replaced' = TRUE
  /\ UNCHANGED <<view, phase>>
  /\ UNCHANGED <<cmpVars, clsVars, rollVars, bootVars, memoVars>>

\* sortSelect "change" of the parties page: renderTable, syncQueryString.
PartiesSortChange ==
  /\ phase = "ready" /\ view \in {"parties", "partiesOld"}
  /\ \E value \in SelectOptions(view, "sortMode", state) :
       state' = [state EXCEPT !.sortMode = value]
  /\ search' = SyncQueryString(view, state') /\ replaced' = TRUE
  /\ UNCHANGED <<view, phase>>
  /\ UNCHANGED <<cmpVars, clsVars, rollVars, bootVars, memoVars>>

\* searchInput "input" of the legacy grid.
LegacySearchInput ==
  /\ phase = "ready" /\ view = "legacy"
  /\ \E value \in QueryInputs :
       state' = LegacyApplyFilters([state EXCEPT !.query = ToLowerCase(Trim(value))])
  /\ UNCHANGED <<view, phase, search, replaced>>
  /\ UNCHANGED <<cmpVars, clsVars, rollVars, bootVars, memoVars>>

\* partyFilter and sortSelect "change" of the legacy grid.
LegacySelectChange ==
  /\ phase = "ready" /\ view = "legacy"
  /\ \E key \in {"partyFilter", "sortMode"} :
       \E value \in SelectOptions(view, key, state) :
         state' = LegacyApplyFilters([state EXCEPT ![key] = value])
  /\ UNCHANGED <<view, phase, search, replaced>>
  /\ UNCHANGED <<cmpVars, clsVars, rollVars, bootVars, memoVars>>

\* "click" on a profile card of the legacy grid: selectProfile(profile.id).
LegacyCardClick ==
  /\ phase = "ready" /\ view = "legacy"
  /\ \E i \in 1..Len(state.filteredProfiles) :
       state' = [state EXCEPT !.selectedId = Some(state.filteredProfiles[i].id)]
  /\ UNCHANGED <<view, phase, search, replaced>>
  /\ UNCHANGED <<cmpVars, clsVars, rollVars, bootVars, memoVars>>

ViewNext ==
  \/ BootHydrate
  \/ DiscoverBootLoaded \/ VotesBootLoaded \/ PartiesBootLoaded \/ LegacyBootLoaded
  \/ DiscoverSearchInput \/ DiscoverSelectChange \/ DiscoverClearFilter
  \/ VotesSearchInput \/ VotesSortChange \/ VotesFlagChange
  \/ VotesListClick \/ VotesPartyFilterChange
  \/ PartiesSortChange
  \/ LegacySearchInput \/ LegacySelectChange \/ LegacyCardClick

ViewSpec == ViewInit /\ [][ViewNext]_vars

\* ---------------------------------------------------------------- page boot
\* boot() of the legacy grid (app.js), DiscoverApp, VotesApp and PartiesApp
\* with the fetchJson calls it awaits.  Every feed is one fetchJson call (or
\* a bootstrap payload that needs none); the calls of a page run
\* interleaved, and boot resumes or its catch handler runs once the promise
\* it awaits has settled.  An input event may be dispatched at any time; it
\* runs one handler per bindEvents call made so far.

BootViews == {"legacy", "discover", "votes", "parties"}

\* The feeds the boot of a page asks for.
FeedsOf(v) ==
  CASE v = "legacy" -> {"profiles", "votes", "stats"}
    [] v = "discover" -> {"profiles", "stats"}
    [] v = "votes" -> {"profiles", "stats", "votes"}
    [] v = "parties" -> {"profiles", "stats", "parties"}

FeedNames == {"profiles", "votes", "stats", "parties"}

\* The feeds a page may find in its bootstrap payload instead of fetching.
BootstrapFeedsOf(v) ==
  CASE v = "legacy" -> {"profiles", "stats"}
    [] v = "discover" -> {"profiles", "stats"}
    [] v = "votes" -> {"profiles", "stats", "votes"}
    [] v = "parties" -> {"profiles", "stats", "parties"}

StatsPayload ==
  [generated_at |-> Some("2024-03-01"), counts |-> [profiles |-> 179, votes |-> 4000]]

\* What a feed delivers when its fetch succeeds.
PayloadsOf(feed) ==
  CASE feed = "profiles" -> {CatalogueProfiles}
    [] feed = "votes" -> {<<>>, CatalogueVotes}
    [] feed = "stats" -> {StatsPayload}
    [] feed = "parties" -> {PartyRoster}

\* What one attempt of fetchJson can meet: a parsed payload, fetch()
\* rejecting, a response that is not ok, or a body response.json() rejects.
AttemptOutcomes == {"ok", "networkError", "httpError", "badBody"}

MAX_ATTEMPTS == 3

\* wait(300 * (attempt + 1)) with a delay of 300 for every attempt.
BackoffMsFixed(attempt) == 300

\* wait(300 * (attempt + 1))
BackoffMs(attempt) == 300 * (attempt + 1)

FeedUnused ==
  [status |-> "unused", attempt |-> 0, lastError |-> None, waits |-> <<>>,
   value |-> None, reason |-> None]

FeedFetching == [FeedUnused EXCEPT !.status = "fetching"]

FeedBootstrapped(payload) ==
  [FeedUnused EXCEPT !.status = "fulfilled", !.value = Some(payload)]

\* One pass of the body of fetchJson's loop, up to its next await.
FetchStep(call, outcome, payload) ==
  CASE outcome = "ok" ->
         [call EXCEPT !.status = "fulfilled", !.value = Some(payload)]
    [] outcome = "badBody" ->
         [call EXCEPT !.status = "rejected", !.reason = Some("badBody")]
    [] OTHER ->
         IF call.attempt = MAX_ATTEMPTS - 1
         THEN [call EXCEPT !.status = "rejected", !.lastError = Some(outcome),
                           !.reason = Some(outcome)]
         ELSE [call EXCEPT !.status = "waiting", !.lastError = Some(outcome),
                           !.waits = Append(@, BackoffMs(call.attempt))]

Settled(call) == call.status \in {"fulfilled", "rejected"}

\* The stats object boot falls back on; votes is the loaded votes' length in
\* the legacy grid and 0 in loadCatalogueData.
FallbackStats(profiles, voteCount) ==
  [generated_at |-> None, counts |-> [profiles |-> Len(profiles), votes |-> voteCount]]

\* The promise of loadCatalogueData: Promise.allSettled of the profiles and
\* stats feeds, rejected when the profiles feed was.
CatalogueStatus(f) ==
  IF ~(Settled(f["profiles"]) /\ Settled(f["stats"])) THEN "pending"
  ELSE IF f["profiles"].status # "fulfilled" THEN "rejected"
  ELSE "fulfilled"

\* Promise.all of the catalogue and one more feed.
AllStatus(f, feed) ==
  IF CatalogueStatus(f) = "rejected" \/ f[feed].status = "rejected" THEN "rejected"
  ELSE IF CatalogueStatus(f) = "fulfilled" /\ f[feed].status = "fulfilled"
       THEN "fulfilled"
  ELSE "pending"

\* A boot that goes on as soon as the collections it cannot do without have
\* arrived, without waiting for the other fetches to settle.
JoinStatusEager(v, f) ==
  IF /\ f["profiles"].status = "fulfilled"
     /\ v = "votes" => f["votes"].status = "fulfilled"
     /\ v = "parties" => f["parties"].status = "fulfilled"
  THEN "fulfilled" ELSE "pending"

\* The promise boot awaits, and whether boot goes on after it or throws.
JoinStatus(v, f) ==
  CASE v = "legacy" ->
         (IF \E feed \in FeedsOf(v) : ~Settled(f[feed]) THEN "pending"
          ELSE IF f["profiles"].status # "fulfilled" THEN "rejected"
          ELSE "fulfilled")
    [] v = "discover" -> CatalogueStatus(f)
    [] v = "votes" -> AllStatus(f, "votes")
    [] v = "parties" -> AllStatus(f, "parties")

ValueOr(call, fallback) ==
  IF call.status = "fulfilled" THEN call.value[1] ELSE fallback

NothingLoaded ==
  [profiles |-> None, votes |-> None, stats |-> None, parties |-> None,
   rendered |-> FALSE]

\* What boot stores and renders after its await.  Of the parties page it
\* holds the roster boot received; the rows buildPartyRows makes of it are
\* modelled by BuildRows and PartiesBootLoaded.
LoadedBy(v, f) ==
  LET profiles == f["profiles"].value[1]
      votes == IF v = "legacy" THEN ValueOr(f["votes"], <<>>)
               ELSE IF v = "votes" THEN f["votes"].value[1]
               ELSE <<>>
      stats == ValueOr(f["stats"],
                       FallbackStats(profiles, IF v = "legacy" THEN Len(votes) ELSE 0))
  IN [profiles |-> Some(profiles),
      votes |-> IF v \in {"legacy", "votes"} THEN Some(votes) ELSE None,
      stats |-> Some(stats),
      parties |-> IF v = "parties" THEN Some(f["parties"].value[1]) ELSE None,
      rendered |-> TRUE]

MaxEvents == 2

BootInit ==
  /\ bootView \in BootViews
  /\ bootPc = "awaiting"
  /\ \E bootstrapped \in SUBSET BootstrapFeedsOf(bootView) :
       feeds = [feed \in FeedNames |->
                  IF feed \notin FeedsOf(bootView) THEN FeedUnused
                  ELSE IF feed \in bootstrapped
                       THEN FeedBootstrapped(CHOOSE p \in PayloadsOf(feed) : p # <<>>)
                  ELSE FeedFetching]
  /\ loaded = NothingLoaded
  /\ bound = 0 /\ events = 0 /\ handled = 0

\* An attempt of a fetchJson call settles: fetch() and the status test.
FetchAttempt ==
  /\ \E feed \in FeedNames :
       /\ feeds[feed].status = "fetching"
       /\ \E outcome \in AttemptOutcomes : \E payload \in PayloadsOf(feed) :
            feeds' = [feeds EXCEPT ![feed] = FetchStep(@, outcome, payload)]
  /\ UNCHANGED <<bootView, bootPc, loaded, bound, events, handled>>
  /\ UNCHANGED <<cmpVars, clsVars, rollVars, viewVars, memoVars>>

\* The timer of wait() fires: attempt += 1 and the loop goes round.
WaitElapsed ==
  /\ \E feed \in FeedNames :
       /\ feeds[feed].status = "waiting"
       /\ feeds' = [feeds EXCEPT ![feed].status = "fetching", ![feed].attempt = @ + 1]
  /\ UNCHANGED <<bootView, bootPc, loaded, bound, events, handled>>
  /\ UNCHANGED <<cmpVars, clsVars, rollVars, viewVars, memoVars>>

\* boot() after its await: store the collections, bindEvents, render.
BootResume ==
  /\ bootPc = "awaiting"
  /\ JoinStatus(bootView, feeds) = "fulfilled"
  /\ loaded' = LoadedBy(bootView, feeds)
  /\ bound' = bound + 1
  /\ bootPc' = "ready"
  /\ UNCHANGED <<bootView, feeds, events, handled>>
  /\ UNCHANGED <<cmpVars, clsVars, rollVars, viewVars, memoVars>>

\* A catch handler that shows the error message and binds the controls all
\* the same.
BootCatchBinds ==
  /\ bootPc = "awaiting"
  /\ JoinStatus(bootView, feeds) = "rejected"
  /\ bootPc' = "error"
  /\ bound' = bound + 1
  /\ UNCHANGED <<bootView, feeds, loaded, events, handled>>
  /\ UNCHANGED <<cmpVars, clsVars, rollVars, viewVars, memoVars>>

\* boot().catch(...): the awaited promise rejected; the page shows its error
\* message.
BootCatch ==
  /\ bootPc = "awaiting"
  /\ JoinStatus(bootView, feeds) = "rejected"
  /\ bootPc' = "error"
  /\ UNCHANGED <<bootView, feeds, loaded, bound, events, handled>>
  /\ UNCHANGED <<cmpVars, clsVars, rollVars, viewVars, memoVars>>

\* The user types, picks or clicks: every listener registered so far runs.
InputEvent ==
  /\ events < MaxEvents
  /\ events' = events + 1
  /\ handled' = handled + bound
  /\ UNCHANGED <<bootView, bootPc, feeds, loaded, bound>>
  /\ UNCHANGED <<cmpVars, clsVars, rollVars, viewVars, memoVars>>

BootNext == FetchAttempt \/ WaitElapsed \/ BootResume \/ BootCatch \/ InputEvent

BootSpecInit == BootInit /\ CmpIdle /\ ClsIdle /\ RollIdle /\ ViewIdle /\ MemoIdle

BootSpec == BootSpecInit /\ [][BootNext]_vars

\* The browser delivers every fetch result and timer callback, and runs the
\* continuation of a settled promise.
BootFairSpec ==
  BootSpec /\ WF_vars(FetchAttempt) /\ WF_vars(WaitElapsed)
           /\ WF_vars(BootResume) /\ WF_vars(BootCatch)

\* ------------------------------------------------------- catalogue loader
\* loadCatalogueData of the shared library with its module-level cache.
\* Calls come from initGlobalSiteStats and from the boot of the page's view,
\* at any time; a load is the promise one call created: Promise.allSettled
\* over the profiles and stats feeds, then the .catch handler that clears the
\* cache when the load rejected.

Callers == {"initGlobalSiteStats", "boot"}

MaxCalls == 3

\* The load a call starts.  A feed found in the bootstrap payload is
\* fulfilled from the start and is not fetched.
NewLoad(bootstrapProfiles, bootstrapStats) ==
  [status |-> "pending",
   profiles |-> IF bootstrapProfiles THEN "fulfilled" ELSE "pending",
   stats |-> IF bootstrapStats THEN "fulfilled" ELSE "pending",
   fetched |-> (IF bootstrapProfiles THEN {} ELSE {"profiles"})
                 \cup (IF bootstrapStats THEN {} ELSE {"stats"})]

MemoInit ==
  /\ catalogueDataPromise = None
  /\ loads = <<>>
  /\ calls = <<>>

\* The load a call returns and the cache it leaves.
StartLoad(caller) ==
  \E bootstrapProfiles \in BOOLEAN : \E bootstrapStats \in BOOLEAN :
    /\ loads' = Append(loads, NewLoad(bootstrapProfiles, bootstrapStats))
    /\ catalogueDataPromise' = Some(Len(loads) + 1)
    /\ calls' = Append(calls, [caller |-> caller, load |-> Len(loads) + 1])

\* A loadCatalogueData that starts a load on every call.
LoadCatalogueDataUncached(caller) ==
  /\ Len(calls) < MaxCalls
  /\ StartLoad(caller)
  /\ UNCHANGED <<cmpVars, clsVars, rollVars, viewVars, bootVars>>

\* loadCatalogueData(), up to its return.
LoadCatalogueData(caller) ==
  /\ Len(calls) < MaxCalls
  /\ IF catalogueDataPromise # None
     THEN /\ calls' = Append(calls, [caller |-> caller, load |-> catalogueDataPromise[1]])
          /\ UNCHANGED <<catalogueDataPromise, loads>>
     ELSE StartLoad(caller)
  /\ UNCHANGED <<cmpVars, clsVars, rollVars, viewVars, bootVars>>

\* One fetchJson call of a load settles.
FeedSettles ==
  /\ \E id \in 1..Len(loads) : \E feed \in {"profiles", "stats"} :
       /\ loads[id][feed] = "pending"
       /\ \E result \in {"fulfilled", "rejected"} :
            loads' = [loads EXCEPT ![id][feed] = result]
  /\ UNCHANGED <<catalogueDataPromise, calls>>
  /\ UNCHANGED <<cmpVars, clsVars, rollVars, viewVars, bootVars>>

\* The async function of a load goes on after Promise.allSettled: it throws
\* the profiles feed's reason, or returns { profiles, stats }.
LoadSettles ==
  /\ \E id \in 1..Len(loads) :
       /\ loads[id].status = "pending"
       /\ loads[id].profiles # "pending" /\ loads[id].stats # "pending"
       /\ loads' = [loads EXCEPT ![id].status =
                      IF loads[id].profiles = "rejected" THEN "rejecting" ELSE "fulfilled"]
  /\ UNCHANGED <<catalogueDataPromise, calls>>
  /\ UNCHANGED <<cmpVars, clsVars, rollVars, viewVars, bootVars>>

\* .catch((error) => { catalogueDataPromise = null; throw error; })
CatchClears ==
  /\ \E id \in 1..Len(loads) :
       /\ loads[id].status = "rejecting"
       /\ loads' = [loads EXCEPT ![id].status = "rejected"]
  /\ catalogueDataPromise' = None
  /\ UNCHANGED calls
  /\ UNCHANGED <<cmpVars, clsVars, rollVars, viewVars, bootVars>>

CallLoad == \E caller \in Callers : LoadCatalogueData(caller)

MemoNext == CallLoad \/ FeedSettles \/ LoadSettles \/ CatchClears

MemoSpecInit == MemoInit /\ CmpIdle /\ ClsIdle /\ RollIdle /\ ViewIdle /\ BootIdle

MemoSpec == MemoSpecInit /\ [][MemoNext]_vars

\* ==================================================================== claims

\* The metric a sort mode orders by, read off an entity of the sorted list.
SortedMetric(kind, mode, e) ==
  IF kind = "rows" THEN e.attendanceAvg
  ELSE IF mode \in {"attendance_desc", "attendance_asc"} THEN e.attendance_pct
  ELSE e.party_loyalty_pct

IsMetricMode(mode) ==
  mode \in {"attendance_desc", "attendance_asc", "loyalty_desc", "loyalty_asc"}

SortedName(kind, e) == IF kind = "rows" THEN e.displayName ELSE e.name

\* C1: in every metric-based sort mode, in either direction, no entity whose
\* metric is missing stands in the sorted list before an entity whose metric
\* is present (and the sorted list keeps every element of the input).
C1_MissingSortsLast ==
  (cmpPc = "sorted" /\ IsMetricMode(cmpMode)) =>
    /\ Len(cmpOut) = Len(cmpList)
    /\ \A i \in 1..Len(cmpOut) : \A j \in 1..Len(cmpOut) :
         (i < j) =>
           ~(/\ IsMissing(SortedMetric(cmpKind, cmpMode, cmpOut[i]))
             /\ ~IsMissing(SortedMetric(cmpKind, cmpMode, cmpOut[j])))

\* C1 witness: [Bo (attendance missing), Anna (attendance 90)] sorted by
\* attendance_desc gave [Anna, Bo].
C1_Witness ==
  /\ cmpPc = "sorted"
  /\ cmpMode = "attendance_desc"
  /\ cmpKind = "libLoyalty"
  /\ Len(cmpList) = 2
  /\ cmpList[1].name = NameBo /\ IsMissing(cmpList[1].attendance_pct)
  /\ cmpList[2].name = NameAnna /\ cmpList[2].attendance_pct = Some(90)
  /\ cmpOut = <<cmpList[2], cmpList[1]>>

\* The key a sort mode orders by before the name: the metric, the member
\* count, or nothing.
TiedOnKey(kind, mode, a, b) ==
  IF IsMetricMode(mode)
    THEN SortedMetric(kind, mode, a) = SortedMetric(kind, mode, b)
  ELSE IF mode = "members_desc" THEN a.memberCount = b.memberCount
  ELSE TRUE

\* C2: every comparator is antisymmetric in every sort mode (swapping the
\* arguments negates the sign) and reports 0 only for two entities of equal
\* name that are tied, or both missing, on the mode's key.
C2_ComparatorAntisymmetric ==
  (cmpPc = "compared") =>
    /\ cmpLR = -cmpRL
    /\ (cmpLR = 0) =>
         /\ SortedName(cmpKind, cmpList[1]) = SortedName(cmpKind, cmpList[2])
         /\ TiedOnKey(cmpKind, cmpMode, cmpList[1], cmpList[2])

\* C2 witness: two party rows with equal attendance average and different
\* display names were compared, and the name decided in both directions.
C2_Witness ==
  /\ cmpPc = "compared"
  /\ cmpKind = "rows"
  /\ cmpMode = "attendance_asc"
  /\ cmpList[1].attendanceAvg = Some(90)
  /\ cmpList[2].attendanceAvg = Some(90)
  /\ cmpList[1].displayName = NameAase
  /\ cmpList[2].displayName = NameBo
  /\ cmpLR = 1
  /\ cmpRL = -1

\* for / imod of the classified vote, 0 when the vote carries no counts.
ClsFor == IF clsVote.counts = None THEN 0 ELSE clsVote.counts[1]["for"]

ClsImod == IF clsVote.counts = None THEN 0 ELSE clsVote.counts[1]["imod"]

\* C3: a vote is close exactly when for + imod > 0 and
\* |for - imod| / (for + imod) * 100 <= 10, the threshold included: 55/45 is
\* close, 54/44 is not, 50/50 is close with margin share 0 of 100 decisive
\* votes, and 0/0 is never close whatever party_split_count is.
C3_CloseVoteBoundary ==
  (clsPc = "done") =>
    /\ clsOut.decisionTotal = ClsFor + ClsImod
    /\ clsOut.isClose =
         (/\ ClsFor + ClsImod > 0
          /\ 100 * (IF ClsFor > ClsImod THEN ClsFor - ClsImod ELSE ClsImod - ClsFor)
               <= 10 * (ClsFor + ClsImod))
    /\ (ClsFor = 55 /\ ClsImod = 45) => clsOut.isClose
    /\ (ClsFor = 54 /\ ClsImod = 44) => ~clsOut.isClose
    /\ (ClsFor = 50 /\ ClsImod = 50) =>
         (clsOut.isClose /\ clsOut.marginSharePct = <<0, 100>> /\ clsOut.decisionTotal = 100)
    /\ (ClsFor = 0 /\ ClsImod = 0) => ~clsOut.isClose

\* C3 witness: the vote for=55, imod=45 was classified, and classified close.
C3_Witness ==
  /\ clsPc = "done"
  /\ ClsFor = 55 /\ ClsImod = 45
  /\ clsOut.isClose
  /\ clsOut.marginSharePct = <<1000, 100>>

\* The rollup as the claims describe it, by sets: the key of the i-th roster
\* entry, the loaded members of a key's merged id set, and the roster
\* positions whose key appears there first and has a loaded member.
RollKeyAt(i) == EntryKey(rollEntries[i])

RollLoadedIds == {rollProfiles[i].id : i \in 1..Len(rollProfiles)}

RollLoaded(id) == CHOOSE p \in Range(rollProfiles) : p.id = id

RollMemberIds(key) ==
  {id \in RollLoadedIds :
     \E i \in 1..Len(rollEntries) :
       RollKeyAt(i) = key /\ id \in Range(rollEntries[i].member_ids)}

RollFirstPositions ==
  {i \in 1..Len(rollEntries) : \A j \in 1..(i - 1) : RollKeyAt(j) # RollKeyAt(i)}

RollRowPositions == {i \in RollFirstPositions : RollMemberIds(RollKeyAt(i)) # {}}

\* The key whose row is the k-th row built.
RollKeyOfRow(k) ==
  RollKeyAt(CHOOSE i \in RollRowPositions :
              Cardinality({j \in RollRowPositions : j <= i}) = k)

RECURSIVE SumOver(_, _)
SumOver(ids, value) ==
  IF ids = {} THEN 0
  ELSE LET id == CHOOSE x \in ids : TRUE
       IN value[id][1] + SumOver(ids \ {id}, value)

\* avg (in tenths, or missing) is the mean of metric over the members of ids
\* that have it, to one decimal; missing when none has it.
IsMeanOverPresent(avg, ids, metric) ==
  LET present == {id \in ids : metric[id] # None}
      count == Cardinality(present)
      sum == SumOver(present, metric)
  IN IF present = {} THEN avg = None
     ELSE /\ avg # None
          /\ 2 * (avg[1] * count - 10 * sum) <= count
          /\ 2 * (avg[1] * count - 10 * sum) > -count

RollBuilt == rollPc \in {"built", "builtWithLoyalty"}

\* C9: attendanceAvg (and loyaltyAvg where the page computes it) of a party
\* row is the mean, to one decimal, over only those resolved members whose
\* metric is present, and is missing when no resolved member has the metric.
C9_AverageOverPresentMembers ==
  RollBuilt =>
    \A k \in 1..Len(rollRows) :
      /\ IsMeanOverPresent(rollRows[k].attendanceAvg, RollMemberIds(RollKeyOfRow(k)),
                           [id \in RollLoadedIds |-> RollLoaded(id).attendance_pct])
      /\ (rollPc = "builtWithLoyalty") =>
           IsMeanOverPresent(rollRows[k].loyaltyAvg, RollMemberIds(RollKeyOfRow(k)),
                             [id \in RollLoadedIds |-> RollLoaded(id).party_loyalty_pct])

\* C9 witness: one party of two members, attendance 80 and missing, got the
\* average 80.0.
C9_Witness ==
  /\ rollPc = "built"
  /\ Len(rollEntries) = 1
  /\ rollEntries[1].member_ids = <<1, 2>>
  /\ rollProfiles[1].attendance_pct = Some(80)
  /\ rollProfiles[2].attendance_pct = None
  /\ Len(rollRows) = 1
  /\ rollRows[1].memberCount = 2
  /\ rollRows[1].attendanceAvg = Some(800)

\* C10: a party group gets a row if and only if at least one id of its merged
\* member-id set resolves to a loaded profile; the rows come in the order the
\* groups first appear, and every row counts at least one member.
C10_RowIffMemberResolves ==
  RollBuilt =>
    /\ Len(rollRows) = Cardinality(RollRowPositions)
    /\ \A k \in 1..Len(rollRows) :
         /\ rollRows[k].memberCount >= 1
         /\ rollRows[k].memberCount = Cardinality(RollMemberIds(RollKeyOfRow(k)))

\* C10 witness: of two groups, the one listing only the stale id 9 got no
\* row and the other got one.
C10_Witness ==
  /\ rollPc = "built"
  /\ Len(rollEntries) = 2
  /\ rollEntries[1].short_name = CodeV /\ rollEntries[1].member_ids = <<9>>
  /\ rollEntries[2].short_name = CodeS /\ rollEntries[2].member_ids = <<2, 3>>
  /\ Len(rollRows) = 1
  /\ rollRows[1].shortName = CodeS
  /\ rollRows[1].memberCount = 2

\* C11: a roster entry with neither short_name nor name is dropped by
\* buildPartyRows: it forms no group, so the rows built are exactly those of
\* the keyed groups with a loaded member, even when the ids of a keyless
\* entry resolve to loaded profiles.
C11_KeylessEntryDropped ==
  RollBuilt =>
    Len(rollRows) = Cardinality({i \in RollRowPositions : RollKeyAt(i) # None})

\* The views' claims are about a page that has booted.
Ready(views) == phase = "ready" /\ view \in views

\* The predicates of the profile search page, each vacuous when its filter is
\* empty.
ProfileTextMatch(profile) ==
  \/ Trim(state.query) = <<>>
  \/ Includes(NormaliseText(RawSearchable(view, profile)), NormaliseText(state.query))
  \/ Includes(RawSearchable(view, profile), ToLowerCase(Trim(state.query)))

ProfilePredicates(profile) ==
  /\ ProfileTextMatch(profile)
  /\ state.partyFilter # <<>> => PartyValue(profile) = state.partyFilter
  /\ state.constituencyFilter # <<>> => profile.storkreds = state.constituencyFilter
  /\ state.committeeFilter # <<>> =>
       \E committee \in Range(OrEmpty(profile.committees)) :
         committee.short_name = state.committeeFilter

\* The predicates of the votes page, each vacuous when its filter is empty or
\* off.
VotePredicates(vote) ==
  /\ NormaliseText(state.query) # <<>> =>
       Includes(NormaliseText(JoinSpace(FilterTruthy(
                  <<vote.sag_number, vote.sag_short_title, vote.sag_title, vote.type,
                    vote.konklusion, vote.date>>))),
                NormaliseText(state.query))
  /\ state.closeOnly => IsCloseVote(vote)
  /\ state.splitOnly => HasPartySplit(vote)

\* list holds each member of wanted once and nothing else.
HoldsExactly(list, wanted) ==
  Range(list) = wanted /\ Len(list) = Cardinality(wanted)

\* C4: once a page has booted, and after every event it handles, its filtered
\* list holds exactly the loaded entities that satisfy every active predicate
\* (text, party, constituency and committee for profiles; text, close-only
\* and split-only for votes); an empty or switched-off filter excludes nothing.
C4_FilterConjunction ==
  /\ Ready({"discover", "discoverOld"}) =>
       HoldsExactly(state.filteredProfiles,
                    {profile \in Range(state.profiles) : ProfilePredicates(profile)})
  /\ Ready({"votes"}) =>
       HoldsExactly(state.filteredVotes,
                    {vote \in Range(state.votes) : VotePredicates(vote)})

\* C4 witness: with a party and a committee chosen and a query typed, one of
\* the three loaded profiles is left.
C4_Witness ==
  /\ Ready({"discover"})
  /\ Len(state.profiles) = 3
  /\ state.partyFilter = CodeV
  /\ state.committeeFilter = CommitteeEUU.short_name
  /\ state.query = <<"a", "a", "s", "e">>
  /\ Len(state.filteredProfiles) = 1
  /\ state.filteredProfiles[1].name = NameAase

\* What a URL is meant to persist of a state.
Persistent(s) ==
  <<s.query, s.constituencyFilter, s.partyFilter, s.committeeFilter, s.sortMode,
    s.closeOnly, s.splitOnly>>

UrlViews == {"discover", "discoverOld", "votes", "parties", "partiesOld"}

\* C5: in every view with a URL, hydrating from the query string that
\* syncQueryString has written gives back the query, the filters, the sort
\* mode and the flags of the state it was written from.
C5_RoundTrip ==
  (Ready(UrlViews) /\ replaced) =>
    Persistent(HydrateStateFromQuery(view, search, InitialState(view))) = Persistent(state)

\* C6: syncQueryString writes a parameter only when the state value it stands
\* for differs from its default, and from the default state (empty query, no
\* filters, flags off, default sort mode) it writes the bare pathname.
C6_OnlyNonDefaultsWritten ==
  (Ready(UrlViews) /\ replaced) =>
    /\ search.q # None => state.query # <<>>
    /\ search.storkreds # None => state.constituencyFilter # <<>>
    /\ search.party # None => state.partyFilter # <<>>
    /\ search.committee # None => state.committeeFilter # <<>>
    /\ search.sort # None => state.sortMode # InitialState(view).sortMode
    /\ search.close # None => state.closeOnly
    /\ search.split # None => state.splitOnly
    /\ search.id # None => state.selectedVoteId # None
    /\ Persistent(state) = Persistent(InitialState(view)) => search = NoParams

\* The sort modes a view knows: the ones its sort select offers.
KnownSorts == SelectOptions(view, "sortMode", state)

\* C7: when the "sort" parameter of the URL is not one of the view's sort
\* modes, hydrateStateFromQuery stores the view's default sort mode.
C7_UnknownSortFallsBack ==
  (phase = "loading" /\ view \in UrlViews /\ search.sort # None
     /\ search.sort[1] \notin KnownSorts) =>
    state.sortMode = InitialState(view).sortMode

\* The selection of a view that has one, the ids its filtered list shows and
\* the first of them.
Selection == IF view = "votes" THEN state.selectedVoteId ELSE state.selectedId

ShownIds ==
  IF view = "votes"
  THEN [i \in 1..Len(state.filteredVotes) |-> state.filteredVotes[i].afstemning_id]
  ELSE [i \in 1..Len(state.filteredProfiles) |-> state.filteredProfiles[i].id]

SelectionShown ==
  IF ShownIds = <<>> THEN Selection = None
  ELSE Selection # None /\ Selection[1] \in Range(ShownIds)

\* C8: in the votes view and the legacy grid, once booted and after every
\* handled event, the selection is the id of an element of the filtered list,
\* or null exactly when that list is empty; and a step that leaves the old
\* selection out of the new filtered list selects the first element of the
\* new filtered and sorted list.
C8_SelectionFollowsFilter ==
  /\ [](Ready({"votes", "legacy"}) => SelectionShown)
  /\ [][(/\ view \in {"votes", "legacy"} /\ phase' = "ready"
         /\ Selection # None /\ Selection[1] \notin Range(ShownIds')
         /\ ShownIds' # <<>>)
          => Selection' = Some(ShownIds'[1])]_vars

\* C8 witness: close-only leaves one of three votes, and it is the selected
\* one.
C8_Witness ==
  /\ Ready({"votes"})
  /\ Len(state.votes) = 3
  /\ state.closeOnly
  /\ Len(state.filteredVotes) = 1
  /\ state.selectedVoteId = Some(state.filteredVotes[1].afstemning_id)

\* C12: in every view with a URL, once boot has completed and after every
\* handled event, the query string is what syncQueryString writes for the
\* current state (so a parameter that hydrateStateFromQuery rejected is gone),
\* and the filtered list is the filter-then-sort of the loaded collection
\* under the current state.
C12_UrlAndListInSync ==
  Ready(UrlViews) =>
    /\ search = SyncQueryString(view, state)
    /\ view \in {"discover", "discoverOld"} =>
         state.filteredProfiles = ApplyFilters(view, state).filteredProfiles
    /\ view = "votes" =>
         state.filteredVotes = ApplyVoteFilter(state).filteredVotes

\* The fetchJson call of a feed of the booting page.
Feed(feed) == feeds[feed]

\* C13: when the profiles feed has failed for good, boot never completes:
\* no profile collection is stored, nothing is filtered or rendered, no
\* input handler is registered or runs, and the page ends in its error
\* state.
C13_ProfilesFailureIsFatal ==
  /\ [](Feed("profiles").status = "rejected" =>
          /\ bootPc \in {"awaiting", "error"}
          /\ loaded = NothingLoaded
          /\ bound = 0 /\ handled = 0)
  /\ (Feed("profiles").status = "rejected") ~> (bootPc = "error")

\* C13 witness: the third attempt for the profiles failed while the stats
\* arrived, an input event was dispatched, and the page shows its error
\* state.
C13_Witness ==
  /\ Feed("profiles").status = "rejected"
  /\ Feed("profiles").attempt = MAX_ATTEMPTS - 1
  /\ Feed("stats").status = "fulfilled"
  /\ events > 0
  /\ bootPc = "error"

\* Only a secondary feed (votes, aggregate stats) has failed: the profiles
\* arrived and the roster, where the page asks for one, did not fail.
OnlySecondaryFailed ==
  /\ Feed("profiles").status = "fulfilled"
  /\ Feed("parties").status # "rejected"
  /\ Feed("votes").status = "rejected" \/ Feed("stats").status = "rejected"

\* C14: when only a secondary feed has failed, the page never shows its
\* error state; once boot has gone on it has stored an empty collection or
\* the fallback stats in place of what failed, bound the handlers and
\* rendered.
C14_SecondaryFailureDegrades ==
  OnlySecondaryFailed =>
    /\ bootPc # "error"
    /\ bootPc = "ready" =>
         /\ bound = 1 /\ loaded.rendered
         /\ Feed("votes").status = "rejected" => loaded.votes = Some(<<>>)
         /\ Feed("stats").status = "rejected" =>
              /\ loaded.stats # None
              /\ loaded.stats[1].generated_at = None

\* The join of the page's initial fetches is over and boot has stored what
\* they delivered.
JoinedAndStored ==
  /\ bootPc = "ready"
  /\ \A feed \in FeedsOf(bootView) : Settled(Feed(feed))
  /\ loaded.profiles # None /\ loaded.stats # None

CaughtFailures == {"networkError", "httpError"}

\* Where a fetchJson call stands: it is within its three attempts, each
\* failed attempt but the third was followed by a wait of 300 ms times its
\* number, a resolved call carries the payload of its last attempt, and a
\* call that rejected on a failed attempt did so on the third, with the last
\* error.
FetchShape(call) ==
  /\ call.attempt \in 0..(MAX_ATTEMPTS - 1)
  /\ Len(call.waits) = (IF call.status = "waiting" THEN call.attempt + 1 ELSE call.attempt)
  /\ call.waits = [i \in 1..Len(call.waits) |-> 300 * i]
  /\ call.status = "fulfilled" => call.value # None /\ call.reason = None
  /\ (call.status = "rejected" /\ call.reason[1] \in CaughtFailures) =>
       /\ call.attempt = MAX_ATTEMPTS - 1
       /\ call.reason = call.lastError
       /\ call.waits = <<300, 600>>

NeutralSorts(v) == IF v = "votes" THEN {"date_desc", "date_asc"} ELSE {"name"}

\* C16: in every view, as long as the URL carries no "sort" parameter and
\* the visitor has chosen nothing (the page is constructed, or has hydrated
\* and awaits its data), the sort mode is a neutral ordering, never one by
\* a metric or by size.
C16_DefaultSortNeutral ==
  (phase \in {"start", "loading"} /\ search.sort = None) =>
    state.sortMode \in NeutralSorts(view)

\* C17: once boot has completed, every categorical filter of the state
\* (party, constituency, committee) is empty or a value its select offers
\* for the loaded collection; a value from the URL that matches nothing has
\* been clamped to the empty default.
C17_UnknownFilterClamped ==
  Ready({"discover", "discoverOld", "votes"}) =>
    /\ state.partyFilter \in SelectOptions(view, "partyFilter", state)
    /\ view # "votes" =>
         /\ state.constituencyFilter \in SelectOptions(view, "constituencyFilter", state)
         /\ state.committeeFilter \in SelectOptions(view, "committeeFilter", state)

\* The raw lowercase text of an entity that a view's search box looks
\* through.
SearchedText(entity) ==
  CASE view = "votes" ->
         ToLowerCase(JoinSpace(FilterTruthy(
           <<entity.sag_number, entity.sag_short_title, entity.sag_title, entity.type,
             entity.konklusion, entity.date>>)))
    [] view = "legacy" ->
         ToLowerCase(JoinSpace(FilterTruthy(
           <<entity.name, entity.party, entity.party_short>>)))
    [] OTHER -> RawSearchable(view, entity)

\* The two checks of a free-text match: the normalised query within the
\* normalised text, or the raw lowercase trimmed query within the raw
\* lowercase text.
MatchesEitherWay(text, query) ==
  \/ Includes(NormaliseText(text), NormaliseText(query))
  \/ Includes(text, ToLowerCase(Trim(query)))

\* C18: in every view with a search box, with a non-empty query typed and
\* no other filter active, the filtered list holds exactly the loaded
\* entities whose text matches the query by the normalised check or by the
\* raw lowercase check.
C18_TextMatchBothChecks ==
  (/\ Ready({"discover", "discoverOld", "legacy", "votes"})
   /\ Trim(state.query) # <<>>
   /\ state.partyFilter = <<>> /\ state.constituencyFilter = <<>>
   /\ state.committeeFilter = <<>> /\ ~state.closeOnly /\ ~state.splitOnly) =>
    IF view = "votes"
    THEN HoldsExactly(state.filteredVotes,
                      {vote \in Range(state.votes) :
                         MatchesEitherWay(SearchedText(vote), state.query)})
    ELSE HoldsExactly(state.filteredProfiles,
                      {profile \in Range(state.profiles) :
                         MatchesEitherWay(SearchedText(profile), state.query)})

\* The party codes of the classified vote whose group has members both
\* among "for" and among "imod".
ClsSplitCodes ==
  IF clsVote.vote_groups_by_party = None THEN {}
  ELSE {entry.key : entry \in
          {e \in Range(clsVote.vote_groups_by_party[1]) :
             /\ e["for"] # None /\ e["for"][1] # <<>>
             /\ e["imod"] # None /\ e["imod"][1] # <<>>}}

\* The parties the vote detail names as split are exactly those codes, by
\* their labels.
ClsNamesSplitCodes ==
  Range(clsOut.splitParties) = {FormatPartyLabel(code) : code \in ClsSplitCodes}

VoteHasDecisionData(vote) == VoteDecisionTotal(vote) > 0

\* C21: in every vote sort mode compareVotes returns, for two votes of
\* distinct afstemning_id, a non-zero number whose sign is negated when the
\* arguments are swapped.
C21_VoteComparatorTotal ==
  (cmpPc = "votesCompared" /\ cmpList[1].afstemning_id # cmpList[2].afstemning_id) =>
    /\ cmpLR \in {Some(-1), Some(1)}
    /\ cmpRL = Some(-cmpLR[1])

\* |for - imod| / (for + imod) of a is at most that of b, for two votes with
\* decision data.
MarginShareAtMost(a, b) ==
  Abs(CountOf(a, "for") - CountOf(a, "imod")) * VoteDecisionTotal(b)
    <= Abs(CountOf(b, "for") - CountOf(b, "imod")) * VoteDecisionTotal(a)

\* C22: a list sorted in close_first mode keeps every vote of the input, has
\* no vote without decision data (for + imod = 0) before a vote with decision
\* data, and among votes with decision data no larger margin share before a
\* smaller one.
C22_CloseFirstOrder ==
  (cmpPc = "votesSorted" /\ cmpMode = "close_first") =>
    /\ Len(cmpOut) = Len(cmpList)
    /\ \A v \in Range(cmpList) : v \in Range(cmpOut)
    /\ \A i \in 1..Len(cmpOut) : \A j \in 1..Len(cmpOut) :
         (i < j) =>
           /\ ~(~VoteHasDecisionData(cmpOut[i]) /\ VoteHasDecisionData(cmpOut[j]))
           /\ (VoteHasDecisionData(cmpOut[i]) /\ VoteHasDecisionData(cmpOut[j])) =>
                MarginShareAtMost(cmpOut[i], cmpOut[j])

\* C22 witness: a vote with counts 0/0 was given before a vote decided 50
\* against 45 (margin share 5.3 %), and the sort exchanged them.
C22_Witness ==
  /\ cmpPc = "votesSorted"
  /\ cmpMode = "close_first"
  /\ Len(cmpList) = 2
  /\ cmpList[1].counts = Some([for |-> 0, imod |-> 0])
  /\ cmpList[2].counts = Some([for |-> 50, imod |-> 45])
  /\ cmpOut = <<cmpList[2], cmpList[1]>>

\* ------------------------------------------------------------ C23 .. C25

\* The committee count of a loaded profile that carries a committees value.
CommitteesCarried(id) ==
  IF RollLoaded(id).committees = None THEN None
  ELSE Some(Len(RollLoaded(id).committees[1]))

\* C23: committeeAvg of a party row is the mean of the committee count over
\* only those resolved members that carry a committees value (a member without
\* the field is left out of numerator and denominator), and is missing when
\* no resolved member carries the field.
C23_CommitteeAvgOverCarriers ==
  RollBuilt =>
    \A k \in 1..Len(rollRows) :
      IsMeanOverPresent(rollRows[k].committeeAvg, RollMemberIds(RollKeyOfRow(k)),
                        [id \in RollLoadedIds |-> CommitteesCarried(id)])

\* The resolved members and the roster names of the group of the k-th row.
RowMembers(k) == {RollLoaded(id) : id \in RollMemberIds(RollKeyOfRow(k))}

RowRawNames(k) ==
  {rollEntries[i].name : i \in {j \in 1..Len(rollEntries) : RollKeyAt(j) = RollKeyOfRow(k)}}
    \ {<<>>}

IsGenericOutsideName(name) == Includes(ToLowerCase(name), GenericOutsidePhrase)

\* C24: the party name of a row follows the precedence: for UFG the fixed
\* lookup name; else a member's current-party name if any resolved member
\* carries one; else a member's party name; else a roster name that is not
\* the generic phrase; else the short-code lookup; the placeholder only when
\* none of these exists.
C24_PartyNamePrecedence ==
  RollBuilt =>
    \A k \in 1..Len(rollRows) :
      LET row == rollRows[k]
          currentNames == {m.current_party : m \in RowMembers(k)} \ {<<>>}
          partyNames == {m.party : m \in RowMembers(k)} \ {<<>>}
          rosterNames == {n \in RowRawNames(k) : ~IsGenericOutsideName(n)}
          lookup == PARTY_NAMES(row.shortName)
      IN /\ IF row.shortName = CodeUFG THEN row.partyName = lookup[1]
            ELSE IF currentNames # {} THEN row.partyName \in currentNames
            ELSE IF partyNames # {} THEN row.partyName \in partyNames
            ELSE IF rosterNames # {} THEN row.partyName \in rosterNames
            ELSE IF lookup # None THEN row.partyName = lookup[1]
            ELSE TRUE
         /\ (row.partyName = NameUkendtParti) =>
              /\ row.shortName # CodeUFG
              /\ currentNames = {} /\ partyNames = {} /\ rosterNames = {}
              /\ lookup = None

\* The short names that two or more roster entries carry.
SharedShortNames ==
  {rollEntries[i].short_name : i \in {j \in 1..Len(rollEntries) :
     /\ rollEntries[j].short_name # <<>>
     /\ \E h \in 1..Len(rollEntries) :
          h # j /\ rollEntries[h].short_name = rollEntries[j].short_name}}

RowsOfShortName(sn) == {k \in 1..Len(rollRows) : rollRows[k].shortName = sn}

\* C25: entries that share a short_name give one row (none when no id of
\* theirs resolves); its members are the union of the entries' member ids, so
\* an id listed in several of the entries counts once in memberCount and once
\* in each average.
C25_SharedShortNameMerged ==
  RollBuilt =>
    \A sn \in SharedShortNames :
      LET ids == RollMemberIds(Some(sn))
      IN /\ Cardinality(RowsOfShortName(sn)) = IF ids = {} THEN 0 ELSE 1
         /\ \A k \in RowsOfShortName(sn) :
              /\ rollRows[k].memberCount = Cardinality(ids)
              /\ IsMeanOverPresent(rollRows[k].attendanceAvg, ids,
                                   [id \in RollLoadedIds |-> RollLoaded(id).attendance_pct])
              /\ IsMeanOverPresent(rollRows[k].committeeAvg, ids,
                                   [id \in RollLoadedIds |->
                                      Some(CommitteeCount(RollLoaded(id)))])
              /\ (rollPc = "builtWithLoyalty") =>
                   IsMeanOverPresent(rollRows[k].loyaltyAvg, ids,
                                     [id \in RollLoadedIds |->
                                        RollLoaded(id).party_loyalty_pct])

\* C25 witness: two entries of short name S, listing ids 1, 2 and 2, 3, gave
\* one row of three members; attendance 80, 90 and 75 average to 81.7.
C25_Witness ==
  /\ rollPc = "built"
  /\ Len(rollEntries) = 2
  /\ rollEntries[1].short_name = CodeS /\ rollEntries[1].member_ids = <<1, 2>>
  /\ rollEntries[2].short_name = CodeS /\ rollEntries[2].member_ids = <<2, 3>>
  /\ rollProfiles[1].attendance_pct = Some(80)
  /\ rollProfiles[2].attendance_pct = Some(90)
  /\ Len(rollRows) = 1
  /\ rollRows[1].memberCount = 3
  /\ rollRows[1].attendanceAvg = Some(817)

\* ------------------------------------------------------------ C26 .. C27

\* C26: a fetchJson call rejects only after three attempts have failed: a
\* rejected call is in its third attempt and has waited after the first and
\* after the second, whatever made them fail (network error, status that is
\* not ok, or a body that does not parse).
C26_RejectsAfterThreeAttempts ==
  \A feed \in FeedNames :
    (Feed(feed).status = "rejected") =>
      /\ Feed(feed).attempt = MAX_ATTEMPTS - 1
      /\ Len(Feed(feed).waits) = MAX_ATTEMPTS - 1

\* What boot holds of a collection, as a count.
LoadedCount(collection) == IF collection = None THEN 0 ELSE Len(collection[1])

\* C27: when the stats feed failed, the stats object boot holds has
\* generated_at = null, counts.profiles = the number of profiles loaded and
\* counts.votes = the number of votes loaded.
C27_FallbackStatsCountWhatLoaded ==
  (bootPc = "ready" /\ Feed("stats").status = "rejected") =>
    /\ loaded.stats[1].generated_at = None
    /\ loaded.stats[1].counts.profiles = LoadedCount(loaded.profiles)
    /\ loaded.stats[1].counts.votes = LoadedCount(loaded.votes)

\* ------------------------------------------------------------------- C28

\* The loads that are pending (their catch handler has not run) or succeeded.
LiveLoads == {id \in 1..Len(loads) : loads[id].status # "rejected"}

IsCallStep == Len(calls') = Len(calls) + 1

\* C28: loadCatalogueData is memoized.  A call made while a load is pending
\* or after it succeeded returns that load and starts nothing; at most one
\* load is pending or succeeded at a time, the cache holds it, and each load
\* fetches a feed at most once, so the loads started are at most one more
\* than the loads that rejected.  The cache is cleared by the catch handler
\* of the load it holds and by nothing else (a newer load is never
\* discarded), and a call made after that starts a fresh load.
C28_LoadMemoized ==
  /\ [](/\ Cardinality(LiveLoads) <= 1
        /\ catalogueDataPromise # None => catalogueDataPromise[1] \in LiveLoads
        /\ catalogueDataPromise = None => LiveLoads = {}
        /\ Len(loads) <= 1 + Cardinality({id \in 1..Len(loads) : loads[id].status = "rejected"})
        /\ \A i \in 1..Len(calls) : calls[i].load \in 1..Len(loads))
  /\ [][(IsCallStep /\ catalogueDataPromise # None) =>
          /\ calls'[Len(calls')].load = catalogueDataPromise[1]
          /\ loads' = loads
          /\ catalogueDataPromise' = catalogueDataPromise]_vars
  /\ [][(IsCallStep /\ catalogueDataPromise = None) =>
          /\ Len(loads') = Len(loads) + 1
          /\ loads'[Len(loads')].status = "pending"
          /\ calls'[Len(calls')].load = Len(loads')
          /\ catalogueDataPromise' = Some(Len(loads'))]_vars
  /\ [][(catalogueDataPromise # None /\ catalogueDataPromise' # catalogueDataPromise) =>
          /\ catalogueDataPromise' = None
          /\ loads[catalogueDataPromise[1]].status = "rejecting"
          /\ loads'[catalogueDataPromise[1]].status = "rejected"]_vars

\* C28 witness: initGlobalSiteStats and boot both got the first load; it
\* rejected and the cache was cleared; a third call started a second load,
\* which is pending in the cache.
C28_Witness ==
  /\ Len(calls) = 3
  /\ calls[1] = [caller |-> "initGlobalSiteStats", load |-> 1]
  /\ calls[2] = [caller |-> "boot", load |-> 1]
  /\ calls[3].load = 2
  /\ Len(loads) = 2
  /\ loads[1].status = "rejected"
  /\ loads[2].status = "pending"
  /\ catalogueDataPromise = Some(2)

\* ------------------------------------------------------------------- C29

\* The party codes of the selected vote; none when no vote is selected.
SelectedVoteParties ==
  LET shown == SelectSeq(state.filteredVotes,
                         LAMBDA vote : Some(vote.afstemning_id) = state.selectedVoteId)
  IN IF shown = <<>> THEN {} ELSE Range(shown[1].vote_groups_by_party)

C30_BaseCollectionsUntouched ==
  [][(phase = "ready" /\ phase' = "ready") =>
       /\ state'.profiles = state.profiles
       /\ state'.votes = state.votes
       /\ state'.rows = state.rows]_vars

\* C30 witness: the profile search page shows its three loaded profiles
\* sorted by attendance, in another order than the loaded collection has.
C30_Witness ==
  /\ Ready({"discover"})
  /\ state.sortMode = "attendance_desc"
  /\ state.profiles = CatalogueProfiles
  /\ Len(state.filteredProfiles) = Len(state.profiles)
  /\ state.filteredProfiles # state.profiles
  /\ replaced

====
